---- MODULE Spec2Model ----
(***************************************************************************)
(* A model of jingo (bet365/jingo): JSON encoders that are compiled once   *)
(* per shape (struct, slice, map) into instructions and then replayed by   *)
(* Marshal against values, appending to a Buffer.                          *)
(*                                                                         *)
(* Text is modelled as sequences of byte values, so that the byte-wise     *)
(* comparison of rendered keys and the exact output bytes can be checked.  *)
(* Types are records [kind, ...]; values are structured (a pointer is nil  *)
(* or a reference with an address and a pointee, a slice is a possibly nil *)
(* list, a map is a possibly nil list of entries in native iteration       *)
(* order, a struct is the list of its field values in declaration order).  *)
(***************************************************************************)
EXTENDS Integers, Sequences, FiniteSets, TLC

---------------------------------------------------------------------------
(* Bounds of the model *)

\* longest slice value marshalled
MaxLen == 2

\* most entries in a map value marshalled
MaxEntries == 3

\* most bytes the caller has written to the Buffer before a Marshal call
MaxPrefix == 1

\* the number of goroutines calling Marshal on one encoder side by side
NumCalls == 2

---------------------------------------------------------------------------
(* Byte literals of the source *)

\* sliceencoder.go: null = []byte("null")
null == <<110, 117, 108, 108>>

\* ptrconvert.go: btrue, bfalse = []byte("true"), []byte("false")
btrue == <<116, 114, 117, 101>>

bfalse == <<102, 97, 108, 115, 101>>

\* mapencoder.go: emptyObj = []byte("{}")
emptyObj == <<123, 125>>

\* the single bytes the encoders write:  "  ,  :  [  ]  {  }
QUOTE == <<34>>

COMMA == <<44>>

COLON == <<58>>

LBRACK == <<91>>

RBRACK == <<93>>

LBRACE == <<123>>

RBRACE == <<125>>

\* the option names matched by tagOptions.Contains
OptStringer == <<115, 116, 114, 105, 110, 103, 101, 114>>

OptEncoder == <<101, 110, 99, 111, 100, 101, 114>>

OptRaw == <<114, 97, 119>>

---------------------------------------------------------------------------
(* Buffer (buffer.go) *)

\* A Buffer; panicked records that the goroutine running Marshal has
\* panicked, after which it writes nothing more.
NewBuffer(bs) == [Bytes |-> bs, panicked |-> FALSE]

\* A Buffer whose backing arrays are followed: arr.cap is cap(b.Bytes), and
\* arr.frozen holds, oldest first, the arrays that append has left behind,
\* each with the bytes it held when it was left.
TrackedBuffer(bs) ==
    [Bytes |-> bs, panicked |-> FALSE,
     arr |-> [cap |-> Len(bs), frozen |-> <<>>]]

\* the appends that took the Buffer from b0 to b1, for a Buffer whose arrays
\* are followed: within the capacity the array is written in place; beyond
\* it the bytes move to a new array, here of just the size needed, and the
\* old one stays as it was
Tracked(b0, b1) ==
    IF Len(b1.Bytes) <= b1.arr.cap THEN b1
    ELSE [b1 EXCEPT !.arr = [cap |-> Len(b1.Bytes),
                             frozen |-> Append(@.frozen, b0.Bytes)]]

\* the Bytes and the panic of a Buffer whose arrays are followed
Untracked(b) == [Bytes |-> b.Bytes, panicked |-> b.panicked]

\* func (b *Buffer) Write(v []byte)
Write(b, v) ==
    IF b.panicked THEN b ELSE [b EXCEPT !.Bytes = @ \o v]

\* func (b *Buffer) WriteByte(v byte); v is given as a one-byte sequence
WriteByte(b, v) ==
    IF b.panicked THEN b ELSE [b EXCEPT !.Bytes = Append(@, v[1])]

\* how many arrays the Buffer has left behind: the number of its current one
Gen(b) == IF "arr" \in DOMAIN b THEN Len(b.arr.frozen) ELSE 0

\* the memory a slice header can point into: the array of the Buffer and the
\* arrays it has left behind
Memory(b) ==
    [cur |-> b.Bytes,
     frozen |-> IF "arr" \in DOMAIN b THEN b.arr.frozen ELSE <<>>]

\* func (b *Buffer) Reset() leaving the bytes where they are
ResetNothing(b) == b

\* func (b *Buffer) Reset()
Reset(b) == [b EXCEPT !.Bytes = SubSeq(@, 1, 0)]

\* a call through a nil func value: the runtime panics
NilCall(b) == [b EXCEPT !.panicked = TRUE]

---------------------------------------------------------------------------
(* Primitive conversions (ptrconvert.go) *)

RECURSIVE Digits(_)
\* the decimal digits of n >= 0, as strconv formats them
Digits(n) ==
    IF n < 10 THEN <<48 + n>> ELSE Digits(n \div 10) \o <<48 + (n % 10)>>

\* strconv.AppendInt(b.Bytes, n, 10)
AppendInt(n) == IF n < 0 THEN <<45>> \o Digits(-n) ELSE Digits(n)

\* func ptrBoolToBuf: writes btrue when r, and then bfalse in every case
ptrBoolToBuf(v, b) ==
    LET b1 == IF v THEN Write(b, btrue) ELSE b
    IN  Write(b1, bfalse)

\* func ptrIntToBuf (and the other integer widths)
ptrIntToBuf(v, b) ==
    IF b.panicked THEN b ELSE [b EXCEPT !.Bytes = @ \o AppendInt(v)]

\* func ptrStringToBuf
ptrStringToBuf(v, b) == Write(b, v)

\* the kinds that have an entry in typeconv
typeconv ==
    [k \in {"Bool", "Int", "String"} |->
        CASE k = "Bool" -> "ptrBoolToBuf"
          [] k = "Int" -> "ptrIntToBuf"
          [] k = "String" -> "ptrStringToBuf"]

\* the kinds the encoders list as primitives (reflect.Bool .. reflect.Float64);
\* Int stands for every integer width, all formatted by strconv in base 10
PrimitiveKinds == {"Bool", "Int"}

\* the kinds for which valueInst panics
UnsupportedKinds ==
    {"Invalid", "Interface", "Complex64", "Complex128", "Chan", "Func",
     "Uintptr", "UnsafePointer"}

---------------------------------------------------------------------------
(* Config (mapencoder.go) *)

\* const sortMapKeys uint8 = 1 << iota
sortMapKeys == 1

\* func (c *Config) SetSortMapKeys(on bool): sets or clears the bit
SetSortMapKeys(c, on) ==
    LET has == (c.mapEncoder \div sortMapKeys) % 2 = 1
    IN  IF on
        THEN [c EXCEPT !.mapEncoder = IF has THEN @ ELSE @ + sortMapKeys]
        ELSE [c EXCEPT !.mapEncoder = IF has THEN @ - sortMapKeys ELSE @]

\* func (c Config) SortMapKeys() bool
SortMapKeys(c) == (c.mapEncoder \div sortMapKeys) % 2 = 1

\* func DefaultConfig() Config
DefaultConfig == SetSortMapKeys([mapEncoder |-> 0], FALSE)

---------------------------------------------------------------------------
(* Shapes, as reflect reports them *)

\* a type of the given kind with no further structure
Kind(k) == [kind |-> k]

PtrTo(t) == [kind |-> "Ptr", elem |-> t]

SliceOf(t) == [kind |-> "Slice", elem |-> t]

ArrayOf(n, t) == [kind |-> "Array", len |-> n, elem |-> t]

MapOf(k, v) == [kind |-> "Map", key |-> k, elem |-> v]

\* a struct field: its Go name, the text of its json tag, its type
Field(name, tag, t) == [Name |-> name, Tag |-> tag, Type |-> t]

StructOf(fields) == [kind |-> "Struct", fields |-> fields]

\* the test type textStruct: a struct with method MarshalText
textStruct ==
    [kind |-> "Struct", fields |-> <<>>, methods |-> {"MarshalText"}]

\* a named type with method  func (T) String() string
stringerType ==
    [kind |-> "Struct", fields |-> <<>>, methods |-> {"String"}]

\* the test type encode0, with method JSONEncode(*Buffer)
encode0 ==
    [kind |-> "Struct", fields |-> <<>>, methods |-> {"JSONEncode"}]

\* whether values of type t have method m (a pointer has its pointee's
\* value-receiver methods)
HasMethod(t, m) ==
    LET base == IF t.kind = "Ptr" THEN t.elem ELSE t
    IN  "methods" \in DOMAIN base /\ m \in base.methods

---------------------------------------------------------------------------
(* Compile: the three encoders' constructors *)

\* no panic is in flight
NoPanic == [msg |-> ""]

Panicked(e) == e.panic.msg # ""

\* the result of a constructor that panicked: no encoder
PanicResult(p) == [panic |-> p]

\* strings.Index(tag, ","): the 1-based index of the first comma, 0 if none
IndexComma(s) ==
    IF \E i \in 1..Len(s) : s[i] = COMMA[1]
    THEN CHOOSE i \in 1..Len(s) :
            s[i] = COMMA[1] /\ \A j \in 1..(i - 1) : s[j] # COMMA[1]
    ELSE 0

\* func parseTag(tag string) (string, tagOptions)
parseTag(tag) ==
    LET idx == IndexComma(tag)
    IN  IF idx # 0
        THEN [tag |-> SubSeq(tag, 1, idx - 1),
              opts |-> SubSeq(tag, idx + 1, Len(tag))]
        ELSE [tag |-> tag, opts |-> <<>>]

RECURSIVE Contains(_, _)
\* func (o tagOptions) Contains(optionName string) bool
Contains(o, optionName) ==
    IF Len(o) = 0 THEN FALSE
    ELSE LET i == IndexComma(o)
             s == IF i # 0 THEN SubSeq(o, 1, i - 1) ELSE o
             next == IF i # 0 THEN SubSeq(o, i + 1, Len(o)) ELSE <<>>
         IN  IF s = optionName THEN TRUE ELSE Contains(next, optionName)

\* func (e *StructEncoder) chunk(b string)
chunk(e, b) == [e EXCEPT !.cb = @ \o b]

\* func (e *StructEncoder) flunk() without the return for len(bs) == 0
flunkAlways(e) ==
    [e EXCEPT !.cpos = Len(e.cb),
              !.instructions =
                Append(@, [op |-> "static",
                           bs |-> SubSeq(e.cb, e.cpos + 1, Len(e.cb))])]

\* func (e *StructEncoder) flunk()
flunk(e) ==
    LET bs == SubSeq(e.cb, e.cpos + 1, Len(e.cb))
        e1 == [e EXCEPT !.cpos = Len(e.cb)]
    IN  IF Len(bs) = 0
        THEN e1
        ELSE [e1 EXCEPT !.instructions =
                Append(@, [op |-> "static", bs |-> bs])]

\* func (e *StructEncoder) val(conv)
val(e, i, conv) ==
    LET e1 == flunk(e)
    IN  [e1 EXCEPT !.instructions =
            Append(@, [op |-> "val", off |-> i, conv |-> conv])]

\* func (e *StructEncoder) ptrval(conv)
ptrval(e, i, conv) ==
    LET e1 == flunk(e)
    IN  [e1 EXCEPT !.instructions =
            Append(@, [op |-> "ptrval", off |-> i, conv |-> conv])]

\* func (e *StructEncoder) ptrstringval(conv)
ptrstringval(e, i, conv) ==
    LET e1 == flunk(e)
    IN  [e1 EXCEPT !.instructions =
            Append(@, [op |-> "ptrstringval", off |-> i, conv |-> conv])]

\* the instr argument of valueInst: e.val or e.ptrval
instrOf(which, e, i, conv) ==
    IF which = "ptrval" THEN ptrval(e, i, conv) ELSE val(e, i, conv)

RECURSIVE arrayElems(_, _, _, _, _)
\* the loop of valueInst's reflect.Array case, from index j (0-based)
arrayElems(e, f, i, conv, j) ==
    IF j >= f.Type.len THEN e
    ELSE LET e1 == IF j > 0 THEN chunk(e, <<44, 32>>) ELSE e
             e2 == flunk(e1)
             e3 == [e2 EXCEPT !.instructions =
                      Append(@, [op |-> "array", off |-> i, idx |-> j,
                                 conv |-> conv])]
         IN  arrayElems(e3, f, i, conv, j + 1)

RECURSIVE NewEncoderWithConfig(_, _, _)

\* func NewStructEncoderWithConfig(t interface{}, cfg Config) *StructEncoder
NewStructEncoderWithConfig(t, cfg) == NewEncoderWithConfig("struct", t, cfg)

\* func NewSliceEncoderWithConfig(t interface{}, cfg Config) *SliceEncoder
NewSliceEncoderWithConfig(t, cfg) == NewEncoderWithConfig("slice", t, cfg)

\* func NewMapEncoderWithConfig(t interface{}, cfg Config) *MapEncoder
NewMapEncoderWithConfig(t, cfg) == NewEncoderWithConfig("map", t, cfg)

RECURSIVE structFields(_, _, _, _, _)

\* append an instruction that hands the field to a child encoder, or
\* propagate the child constructor's panic
childInst(e, op, i, enc) ==
    IF Panicked(enc)
    THEN [e EXCEPT !.panic = enc.panic]
    ELSE [e EXCEPT !.instructions =
            Append(@, [op |-> op, off |-> i, enc |-> enc])]

\* func (e *StructEncoder) valueInst(k, instr, cfg), for field f at index i
valueInst(e, f, i, k, instr, cfg) ==
    CASE k \in PrimitiveKinds ->
            instrOf(instr, e, i, [fn |-> typeconv[k]])
      [] k = "Array" ->
            LET e1 == chunk(e, LBRACK)
            IN  IF f.Type.elem.kind \notin DOMAIN typeconv
                THEN e1
                ELSE chunk(arrayElems(e1, f, i,
                             [fn |-> typeconv[f.Type.elem.kind]], 0), RBRACK)
      [] k = "Slice" ->
            childInst(flunk(e), "slice", i,
                      NewSliceEncoderWithConfig(f.Type, cfg))
      [] k = "String" ->
            IF f.Type.kind = "Ptr"
            THEN ptrstringval(e, i, [fn |-> "ptrStringToBuf"])
            ELSE chunk(instrOf(instr, chunk(e, QUOTE), i,
                               [fn |-> "ptrStringToBuf"]), QUOTE)
      [] k = "Struct" ->
            IF f.Type.kind = "Ptr"
            THEN childInst(flunk(e), "ptrstruct", i,
                           NewStructEncoderWithConfig(f.Type.elem, cfg))
            ELSE childInst(flunk(e), "struct", i,
                           NewStructEncoderWithConfig(f.Type, cfg))
      [] k = "Map" ->
            IF f.Type.kind = "Ptr"
            THEN childInst(flunk(e), "ptrmap", i,
                           NewMapEncoderWithConfig(f.Type.elem, cfg))
            ELSE childInst(flunk(e), "map", i,
                           NewMapEncoderWithConfig(f.Type, cfg))
      [] k \in UnsupportedKinds ->
            [e EXCEPT !.panic = [msg |-> "unsupported type",
                                 kind |-> f.Type.kind, name |-> f.Name]]
      [] OTHER -> e

\* the body of the field loop of NewStructEncoderWithConfig for one tagged
\* field, after its key has been chunked
fieldInst(e, f, i, opts, cfg) ==
    LET isPtr == f.Type.kind = "Ptr"
        t == IF isPtr THEN f.Type.elem ELSE f.Type
        pick(conv) == IF isPtr THEN ptrval(e, i, conv) ELSE val(e, i, conv)
    IN  CASE Contains(opts, OptStringer) /\ HasMethod(f.Type, "String") ->
                LET e1 == chunk(e, QUOTE)
                    c == [fn |-> "stringer", t |-> t]
                    e2 == IF isPtr THEN ptrval(e1, i, c) ELSE val(e1, i, c)
                IN  chunk(e2, QUOTE)
          [] Contains(opts, OptEncoder) -> pick([fn |-> "encoder", t |-> t])
          [] Contains(opts, OptRaw) -> pick([fn |-> "raw", k |-> t.kind])
          [] isPtr -> valueInst(e, f, i, f.Type.elem.kind, "ptrval", cfg)
          [] OTHER -> valueInst(e, f, i, f.Type.kind, "val", cfg)

\* keyChunk with the comma decided by emit > 0: a comma before every key
keyChunkCommaAlways(e, tag, emit) ==
    LET e1 == IF emit > 0 THEN chunk(e, COMMA) ELSE e
    IN  chunk(e1, QUOTE \o tag \o QUOTE \o COLON)

\* "write the key" in NewStructEncoderWithConfig: emit counts the tagged
\* fields up to and including this one
keyChunk(e, tag, emit) ==
    LET e1 == IF emit > 1 THEN chunk(e, COMMA) ELSE e
    IN  chunk(e1, QUOTE \o tag \o QUOTE \o COLON)

\* the field loop of NewStructEncoderWithConfig from field i (1-based), with
\* emit fields emitted so far
structFields(e, tt, i, emit, cfg) ==
    IF Panicked(e) \/ i > Len(tt.fields) THEN e
    ELSE LET f == tt.fields[i]
             pt == parseTag(f.Tag)
         IN  IF pt.tag = <<>>
             THEN structFields(e, tt, i + 1, emit, cfg)
             ELSE structFields(
                    fieldInst(keyChunk(e, pt.tag, emit + 1), f, i, pt.opts, cfg),
                    tt, i + 1, emit + 1, cfg)

\* the body of NewStructEncoderWithConfig
StructEncoderOf(t, cfg) ==
    LET e0 == [instructions |-> <<>>, t |-> t, cb |-> <<>>, cpos |-> 0,
               panic |-> NoPanic]
        e1 == structFields(chunk(e0, LBRACE), t, 1, 0, cfg)
    IN  IF Panicked(e1)
        THEN PanicResult(e1.panic)
        ELSE flunk(chunk(e1, RBRACE))

\* func NewStructEncoder(t interface{}) *StructEncoder
NewStructEncoder(t) == NewStructEncoderWithConfig(t, DefaultConfig)

\* a SliceEncoder whose instruction has not been assigned (nil func)
UnsetInstruction == [op |-> "unset"]

\* a SliceEncoder with the given instruction, or the child's panic
sliceEnc(tt, op, enc) ==
    IF Panicked(enc)
    THEN PanicResult(enc.panic)
    ELSE [instruction |-> [op |-> op, enc |-> enc], tt |-> tt,
          panic |-> NoPanic]

\* func (e *SliceEncoder) sliceInstr(cfg)
sliceInstr(tt, cfg) ==
    sliceEnc(tt, "sliceInstr", NewSliceEncoderWithConfig(tt.elem, cfg))

\* func (e *SliceEncoder) structInstr(cfg)
structInstr(tt, cfg) ==
    sliceEnc(tt, "structInstr", NewStructEncoderWithConfig(tt.elem, cfg))

\* func (e *SliceEncoder) mapInstr(cfg) compiling the child with
\* DefaultConfig()
mapInstrDefaultConfig(tt, cfg) ==
    sliceEnc(tt, "mapInstr", NewMapEncoderWithConfig(tt.elem, DefaultConfig))

\* func (e *SliceEncoder) mapInstr(cfg)
mapInstr(tt, cfg) ==
    sliceEnc(tt, "mapInstr", NewMapEncoderWithConfig(tt.elem, cfg))

\* func (e *SliceEncoder) stringInstr()
stringInstr(tt) ==
    [instruction |-> [op |-> "stringInstr"], tt |-> tt, panic |-> NoPanic]

\* func (e *SliceEncoder) otherInstr(): leaves the instruction unset when
\* the element kind has no conversion
otherInstr(tt) ==
    IF tt.elem.kind \notin DOMAIN typeconv
    THEN [instruction |-> UnsetInstruction, tt |-> tt, panic |-> NoPanic]
    ELSE [instruction |-> [op |-> "otherInstr",
                           conv |-> [fn |-> typeconv[tt.elem.kind]]],
          tt |-> tt, panic |-> NoPanic]

\* func (e *SliceEncoder) ptrSliceInstr(cfg): reflect.New(e.tt.Elem()).Elem()
\* is a nil pointer, its Elem() the zero Value, on which Interface() panics
ptrSliceInstr(tt, cfg) ==
    PanicResult([msg |-> "reflect: call of reflect.Value.Interface on zero Value"])

\* func (e *SliceEncoder) ptrStrctInstr(cfg)
ptrStrctInstr(tt, cfg) ==
    sliceEnc(tt, "ptrStrctInstr",
             NewStructEncoderWithConfig(tt.elem.elem, cfg))

\* func (e *SliceEncoder) ptrMapInstr(cfg)
ptrMapInstr(tt, cfg) ==
    sliceEnc(tt, "ptrMapInstr", NewMapEncoderWithConfig(tt.elem.elem, cfg))

\* func (e *SliceEncoder) ptrStringInstr()
ptrStringInstr(tt) ==
    [instruction |-> [op |-> "ptrStringInstr"], tt |-> tt, panic |-> NoPanic]

\* func (e *SliceEncoder) ptrOtherInstr()
ptrOtherInstr(tt) ==
    IF tt.elem.elem.kind \notin DOMAIN typeconv
    THEN [instruction |-> UnsetInstruction, tt |-> tt, panic |-> NoPanic]
    ELSE [instruction |-> [op |-> "ptrOtherInstr",
                           conv |-> [fn |-> typeconv[tt.elem.elem.kind]]],
          tt |-> tt, panic |-> NoPanic]

\* the body of NewSliceEncoderWithConfig
SliceEncoderOf(t, cfg) ==
    LET k == t.elem.kind
    IN  CASE k = "Slice" -> sliceInstr(t, cfg)
          [] k = "Struct" -> structInstr(t, cfg)
          [] k = "Map" -> mapInstr(t, cfg)
          [] k = "String" -> stringInstr(t)
          [] k = "Ptr" ->
                LET pk == t.elem.elem.kind
                IN  CASE pk = "Slice" -> ptrSliceInstr(t, cfg)
                      [] pk = "Struct" -> ptrStrctInstr(t, cfg)
                      [] pk = "Map" -> ptrMapInstr(t, cfg)
                      [] pk = "String" -> ptrStringInstr(t)
                      [] OTHER -> ptrOtherInstr(t)
          [] OTHER -> otherInstr(t)

\* func NewSliceEncoder(t interface{}) *SliceEncoder
NewSliceEncoder(t) == NewSliceEncoderWithConfig(t, DefaultConfig)

\* func (e *MapEncoder) ptrElemInstr(conv)
ptrElemInstr(conv) == [fn |-> "ptrElemInstr", conv |-> conv]

\* func (e *MapEncoder) ptrStrElemInstr()
ptrStrElemInstr == [fn |-> "ptrStrElemInstr"]

\* func (e *MapEncoder) ptrKeyInstr(conv)
ptrKeyInstr(conv) == [fn |-> "ptrKeyInstr", conv |-> conv]

\* a converter chosen at compile time, or the panic that stopped the compile
convOk(c) == [conv |-> c, panic |-> NoPanic]

\* a converter that marshals through a child encoder, or the child's panic
encConv(fn, enc) ==
    IF Panicked(enc) THEN PanicResult(enc.panic)
    ELSE convOk([fn |-> fn, enc |-> enc])

\* the element converter chosen by NewMapEncoderWithConfig (econv)
elemConv(tt, cfg) ==
    LET k == tt.elem.kind
        wrap(r) == IF Panicked(r) THEN r ELSE convOk(ptrElemInstr(r.conv))
    IN  CASE HasMethod(tt.elem, "MarshalText") ->
                IF k = "Ptr"
                THEN convOk(ptrElemInstr([fn |-> "marshalTextElem"]))
                ELSE convOk([fn |-> "marshalTextElem"])
          [] k = "Slice" ->
                encConv("sliceMarshal", NewSliceEncoderWithConfig(tt.elem, cfg))
          [] k = "Struct" ->
                encConv("structMarshal", NewStructEncoderWithConfig(tt.elem, cfg))
          [] k = "Map" ->
                encConv("mapMarshal", NewMapEncoderWithConfig(tt.elem, cfg))
          [] k = "Ptr" ->
                LET pk == tt.elem.elem.kind
                IN  CASE pk = "Slice" ->
                            wrap(encConv("sliceMarshal",
                                NewSliceEncoderWithConfig(tt.elem.elem, cfg)))
                      [] pk = "Struct" ->
                            wrap(encConv("structMarshal",
                                NewStructEncoderWithConfig(tt.elem.elem, cfg)))
                      [] pk = "Map" ->
                            wrap(encConv("mapMarshal",
                                NewMapEncoderWithConfig(tt.elem.elem, cfg)))
                      [] pk = "String" -> convOk(ptrStrElemInstr)
                      [] pk \in PrimitiveKinds ->
                            convOk(ptrElemInstr([fn |-> typeconv[pk]]))
                      [] OTHER ->
                            PanicResult([msg |-> "unsupported ptr elem type"])
          [] k = "String" -> convOk([fn |-> "quotedString"])
          [] k \in PrimitiveKinds -> convOk([fn |-> typeconv[k]])
          [] OTHER -> PanicResult([msg |-> "unsupported elem type"])

\* keyConv taking every key type without a conversion as a TextMarshaler
keyConvNoPanic(tt) ==
    LET k == tt.key.kind
    IN  CASE k \in PrimitiveKinds \cup {"String"} ->
                convOk([fn |-> typeconv[k]])
          [] k = "Ptr" -> convOk(ptrKeyInstr([fn |-> "marshalTextKey"]))
          [] OTHER -> convOk([fn |-> "marshalTextKey"])

\* the key converter chosen by NewMapEncoderWithConfig (kconv)
keyConv(tt) ==
    LET k == tt.key.kind
    IN  CASE k \in PrimitiveKinds \cup {"String"} ->
                convOk([fn |-> typeconv[k]])
          [] HasMethod(tt.key, "MarshalText") ->
                IF k = "Ptr"
                THEN convOk(ptrKeyInstr([fn |-> "marshalTextKey"]))
                ELSE convOk([fn |-> "marshalTextKey"])
          [] OTHER -> PanicResult([msg |-> "unsupported key type"])

\* the body of NewMapEncoderWithConfig
MapEncoderOf(t, cfg) ==
    LET base == [tt |-> t, cfg |-> cfg, panic |-> NoPanic]
    IN  IF t.key.kind = "String" /\ t.elem.kind = "String"
        THEN IF SortMapKeys(cfg)
             THEN base @@ [instruction |-> [op |-> "sortStrStrInstr"]]
             ELSE base @@ [instruction |-> [op |-> "strStrInstr"]]
        ELSE LET ec == elemConv(t, cfg)
             IN  IF Panicked(ec) THEN PanicResult(ec.panic)
                 ELSE LET kc == keyConv(t)
                      IN  IF Panicked(kc) THEN PanicResult(kc.panic)
                          ELSE base @@
                               [instruction |->
                                 [op |-> IF SortMapKeys(cfg)
                                         THEN "sortInstr" ELSE "instr",
                                  kconv |-> kc.conv, econv |-> ec.conv]]

\* the constructor of the encoder of kind k, called for the type t
NewEncoderWithConfig(k, t, cfg) ==
    CASE k = "struct" -> StructEncoderOf(t, cfg)
      [] k = "slice" -> SliceEncoderOf(t, cfg)
      [] k = "map" -> MapEncoderOf(t, cfg)

\* NewMapEncoder compiling with ordering on
NewMapEncoderSorted(t) ==
    NewMapEncoderWithConfig(t, SetSortMapKeys(DefaultConfig, TRUE))

\* func NewMapEncoder(t interface{}) *MapEncoder
NewMapEncoder(t) == NewMapEncoderWithConfig(t, DefaultConfig)

---------------------------------------------------------------------------
(* Marshal: executing the instructions *)

\* bytes.Compare(a, b) < 0: byte-wise lexicographic order, a proper prefix
\* ordered before the longer text
BytesLess(a, b) ==
    \E i \in 1..(Len(b)) :
        /\ \A j \in 1..(i - 1) : j <= Len(a) /\ a[j] = b[j]
        /\ (i > Len(a) \/ a[i] < b[i])

\* the klen bytes at offset start of the array a; what lies behind the bytes
\* the array held reads as zero
ReadAt(a, start, klen) ==
    [i \in 1..klen |-> IF start + i <= Len(a) THEN a[start + i] ELSE 0]

\* unsafeke.k built from the array the Buffer had before kconv wrote the key
keyHeaderBefore(b0, b1, start, klen, e) ==
    [start |-> start, klen |-> klen, gen |-> Gen(b0), e |-> e]

\* unsafeke{k: sliceHeader{sl.Data + start, klen, klen}, e: it.elem}: sl.Data
\* is read after kconv wrote the key (b0: the Buffer before, b1: after)
keyHeader(b0, b1, start, klen, e) ==
    [start |-> start, klen |-> klen, gen |-> Gen(b1), e |-> e]

\* *(*[]byte)(unsafe.Pointer(&kv.k)): the key bytes a record points to, in
\* the array of the Buffer it was built from, or the key string itself
keyText(kv, mem) ==
    IF "start" \in DOMAIN kv
    THEN ReadAt(IF kv.gen < Len(mem.frozen) THEN mem.frozen[kv.gen + 1]
                ELSE mem.cur,
                kv.start, kv.klen)
    ELSE kv.k

\* Less comparing the lengths of the keys before their bytes
LessShorterFirst(kvs, i, j, mem) ==
    LET a == keyText(kvs[i], mem)
        b == keyText(kvs[j], mem)
    IN  Len(a) < Len(b) \/ (Len(a) = Len(b) /\ BytesLess(a, b))

\* func (ms mapSlice) Less(i, j int) bool, indices 1-based
Less(kvs, i, j, mem) == BytesLess(keyText(kvs[i], mem), keyText(kvs[j], mem))

\* func (ms mapSlice) Swap(i, j int)
Swap(kvs, i, j) == [kvs EXCEPT ![i] = kvs[j], ![j] = kvs[i]]

RECURSIVE sinkDown(_, _, _)
\* the inner loop of insertion sort: for j := i; j > a && Less(j, j-1); j--
sinkDown(kvs, j, mem) ==
    IF j > 1 /\ Less(kvs, j, j - 1, mem)
    THEN sinkDown(Swap(kvs, j, j - 1), j - 1, mem)
    ELSE kvs

RECURSIVE insertionSort(_, _, _)
\* the outer loop of insertion sort from index i
insertionSort(kvs, i, mem) ==
    IF i > Len(kvs) THEN kvs
    ELSE insertionSort(sinkDown(kvs, i, mem), i + 1, mem)

\* Sort leaving the records in the order they were collected
SortNone(kvs, mem) == kvs

\* sort.Sort(mapSlice): for the lengths marshalled here (below 7) the
\* library's sort is a plain insertion sort
Sort(kvs, mem) == insertionSort(kvs, 2, mem)

RECURSIVE Marshal(_, _, _, _)

\* func (e *StructEncoder) Marshal(s interface{}, w *Buffer)
StructMarshal(e, v, b) == Marshal("struct", e, v, b)

\* func (e *SliceEncoder) Marshal(s interface{}, w *Buffer)
SliceMarshal(e, v, b) == Marshal("slice", e, v, b)

\* func (e MapEncoder) Marshal(s interface{}, w *Buffer)
MapMarshal(e, m, b) == Marshal("map", e, m, b)

\* s := *(*[]byte)(v) in the raw converter: the bytes the first two words
\* at v, read as data pointer and length, refer to; v holds a value of kind
\* k, a string or a slice of bytes
headerBytes(k, v) ==
    CASE k = "String" -> v
      [] k = "Slice" -> v.elems

\* encoderConv writing nothing when the type is no JSONEncoder
encoderConvNoFallback(t, v, b) ==
    IF HasMethod(t, "JSONEncode") THEN Write(b, v.json) ELSE b

\* the converter of the encoder case, for a field of type t or *t: the
\* pointer to the value is asked for JSONEncoder, which the methods of either
\* receiver satisfy
encoderConv(t, v, b) ==
    IF HasMethod(t, "JSONEncode") THEN Write(b, v.json) ELSE Write(b, null)

\* rawConv writing the content whatever its length
rawConvNoNull(k, v, b) == Write(b, headerBytes(k, v))

\* the converter of the raw case, reading a value of kind k
rawConv(k, v, b) ==
    LET s == headerBytes(k, v)
    IN  IF Len(s) = 0 THEN Write(b, null) ELSE Write(b, s)

RECURSIVE ApplyConv(_, _, _)

\* ptrKeyConv writing the literal null for a nil key
ptrKeyConvNull(conv, p, b) ==
    IF p.isnil THEN Write(b, null) ELSE ApplyConv(conv.conv, p.elem, b)

\* the converter ptrKeyInstr returns, run on the pointer key p: a nil key
\* writes nothing
ptrKeyConv(conv, p, b) ==
    IF p.isnil THEN b ELSE ApplyConv(conv.conv, p.elem, b)


\* a converter applied to the value at an address
ApplyConv(conv, v, b) ==
    CASE conv.fn = "ptrBoolToBuf" -> ptrBoolToBuf(v, b)
      [] conv.fn = "ptrIntToBuf" -> ptrIntToBuf(v, b)
      [] conv.fn = "ptrStringToBuf" -> ptrStringToBuf(v, b)
      [] conv.fn = "quotedString" ->
            WriteByte(ptrStringToBuf(v, WriteByte(b, QUOTE)), QUOTE)
      [] conv.fn = "sliceMarshal" -> SliceMarshal(conv.enc, v, b)
      [] conv.fn = "structMarshal" -> StructMarshal(conv.enc, v, b)
      [] conv.fn = "mapMarshal" -> MapMarshal(conv.enc, v, b)
      [] conv.fn = "ptrElemInstr" ->
            IF v.isnil THEN Write(b, null) ELSE ApplyConv(conv.conv, v.elem, b)
      [] conv.fn = "ptrStrElemInstr" ->
            IF v.isnil THEN Write(b, null)
            ELSE WriteByte(ptrStringToBuf(v.elem, WriteByte(b, QUOTE)), QUOTE)
      [] conv.fn = "ptrKeyInstr" -> ptrKeyConv(conv, v, b)
      [] conv.fn = "marshalTextKey" -> ptrStringToBuf(v.text, b)
      [] conv.fn = "marshalTextElem" ->
            WriteByte(ptrStringToBuf(v.text, WriteByte(b, QUOTE)), QUOTE)
      [] conv.fn = "stringer" -> Write(b, v.str)
      [] conv.fn = "encoder" -> encoderConv(conv.t, v, b)
      [] conv.fn = "raw" -> rawConv(conv.k, v, b)

\* the instruction appended by val, run on the field value x
valInstr(conv, x, b) == ApplyConv(conv, x, b)

\* ptrvalInstr writing null inside double quotes for a nil pointer
ptrvalInstrQuotedNull(conv, p, b) ==
    IF p.isnil THEN Write(b, QUOTE \o null \o QUOTE)
    ELSE ApplyConv(conv, p.elem, b)

\* the instruction appended by ptrval, run on the pointer field value p
ptrvalInstr(conv, p, b) ==
    IF p.isnil THEN Write(b, null) ELSE ApplyConv(conv, p.elem, b)

\* the instruction appended by ptrstringval, run on the pointer field value p
ptrstringvalInstr(conv, p, b) ==
    IF p.isnil THEN Write(b, null)
    ELSE WriteByte(ApplyConv(conv, p.elem, WriteByte(b, QUOTE)), QUOTE)

\* what stands for memory that holds no slice header: address 0, or the
\* words that follow the one header a pointer refers to
Unmapped == [unmapped |-> TRUE]

\* a read through an address that is not mapped: the runtime panics
Fault(b) == [b EXCEPT !.panicked = TRUE]

\* the word that follows field off of the struct value v in memory: the
\* next field when that is an int
wordAfter(v, off) == CASE off < Len(v) -> v[off + 1]

\* the slice headers found from Data = p on when Len = len is read from the
\* word after a pointer field: none for 0; the pointee's header first, when
\* p is not nil; what follows it is not a header, and a negative len, read
\* as uintptr, runs the loop into memory that is not mapped
headersFrom(p, len) ==
    CASE len = 0 -> <<>>
      [] len # 0 /\ p.isnil -> <<Unmapped>>
      [] len = 1 /\ ~p.isnil -> <<p.elem>>
      [] len < 0 /\ ~p.isnil -> <<p.elem, Unmapped>>

\* sl := *(*reflect.SliceHeader)(v) in the instruction of the encoder built
\* for the type tt of field off: for a slice field the field's own header;
\* for a pointer field the pointer is read as Data and the next word as Len
sliceHeaderAt(tt, v, off) ==
    IF tt.kind = "Ptr"
    THEN [isnil |-> v[off].isnil,
          elems |-> headersFrom(v[off], wordAfter(v, off))]
    ELSE v[off]

\* one instruction of a StructEncoder run against the struct value v
structStep(ins, v, b) ==
    CASE ins.op = "static" -> Write(b, ins.bs)
      [] ins.op = "val" -> valInstr(ins.conv, v[ins.off], b)
      [] ins.op = "ptrval" -> ptrvalInstr(ins.conv, v[ins.off], b)
      [] ins.op = "ptrstringval" ->
            ptrstringvalInstr(ins.conv, v[ins.off], b)
      [] ins.op = "array" -> ApplyConv(ins.conv, v[ins.off][ins.idx + 1], b)
      [] ins.op = "slice" ->
            SliceMarshal(ins.enc, sliceHeaderAt(ins.enc.tt, v, ins.off), b)
      [] ins.op = "struct" -> StructMarshal(ins.enc, v[ins.off], b)
      [] ins.op = "ptrstruct" ->
            IF v[ins.off].isnil THEN Write(b, null)
            ELSE StructMarshal(ins.enc, v[ins.off].elem, b)
      [] ins.op = "map" -> MapMarshal(ins.enc, v[ins.off], b)
      [] ins.op = "ptrmap" ->
            IF v[ins.off].isnil THEN Write(b, null)
            ELSE MapMarshal(ins.enc, v[ins.off].elem, b)

RECURSIVE structSteps(_, _, _, _)
\* the loop of StructEncoder.Marshal from instruction i
structSteps(e, v, b, i) ==
    IF i > Len(e.instructions) THEN b
    ELSE structSteps(e, v, structStep(e.instructions[i], v, b), i + 1)

\* the body of StructEncoder.Marshal: the loop over e.instructions
StructEncoderMarshal(e, v, b) == structSteps(e, v, b, 1)

\* the rendering of one slice element by the instruction ins
sliceElem(ins, el, b) ==
    CASE ins.op = "sliceInstr" ->
            IF "unmapped" \in DOMAIN el THEN Fault(b)
            ELSE SliceMarshal(ins.enc, el, b)
      [] ins.op = "structInstr" -> StructMarshal(ins.enc, el, b)
      [] ins.op = "mapInstr" -> MapMarshal(ins.enc, el, b)
      [] ins.op = "otherInstr" -> ApplyConv(ins.conv, el, b)
      [] ins.op = "ptrStrctInstr" ->
            IF el.isnil THEN Write(b, null)
            ELSE StructMarshal(ins.enc, el.elem, b)
      [] ins.op = "ptrMapInstr" ->
            IF el.isnil THEN Write(b, null)
            ELSE MapMarshal(ins.enc, el.elem, b)
      [] ins.op = "ptrStringInstr" ->
            IF el.isnil THEN Write(b, null)
            ELSE WriteByte(ptrStringToBuf(el.elem, WriteByte(b, QUOTE)), QUOTE)
      [] ins.op = "ptrOtherInstr" ->
            IF el.isnil THEN Write(b, null)
            ELSE ApplyConv(ins.conv, el.elem, b)

RECURSIVE sliceLoop(_, _, _, _)
\* the element loop shared by the slice instructions, from index i (0-based)
sliceLoop(ins, elems, b, i) ==
    IF i >= Len(elems) THEN b
    ELSE LET b1 == IF i > 0 THEN WriteByte(b, COMMA) ELSE b
         IN  sliceLoop(ins, elems, sliceElem(ins, elems[i + 1], b1), i + 1)

RECURSIVE stringLoopNoClosingQuote(_, _, _)
\* the loop of stringInstr without the closing quote after the last element
stringLoopNoClosingQuote(elems, b, i) ==
    IF i >= Len(elems) THEN b
    ELSE LET b1 == IF i = 0 THEN WriteByte(b, QUOTE) ELSE b
             b2 == IF i > 0 THEN Write(b1, <<34, 44, 34>>) ELSE b1
         IN  stringLoopNoClosingQuote(elems,
                ptrStringToBuf(elems[i + 1], b2), i + 1)

RECURSIVE stringLoop(_, _, _)
\* the element loop of stringInstr, from index i (0-based)
stringLoop(elems, b, i) ==
    IF i >= Len(elems) THEN b
    ELSE LET b1 == IF i = 0 THEN WriteByte(b, QUOTE) ELSE b
             b2 == IF i > 0 THEN Write(b1, <<34, 44, 34>>) ELSE b1
             b3 == ptrStringToBuf(elems[i + 1], b2)
             b4 == IF i = Len(elems) - 1 THEN WriteByte(b3, QUOTE) ELSE b3
         IN  stringLoop(elems, b4, i + 1)

\* Marshal writing null for a slice of no elements
SliceMarshalNullWhenEmpty(e, v, b) ==
    IF e.instruction.op = "unset" THEN NilCall(b)
    ELSE IF Len(v.elems) = 0 THEN Write(b, null)
    ELSE LET b1 == WriteByte(b, LBRACK)
             b2 == IF e.instruction.op = "stringInstr"
                   THEN stringLoop(v.elems, b1, 0)
                   ELSE sliceLoop(e.instruction, v.elems, b1, 0)
         IN  WriteByte(b2, RBRACK)

\* the body of SliceEncoder.Marshal
SliceEncoderMarshal(e, v, b) ==
    IF e.instruction.op = "unset" THEN NilCall(b)
    ELSE LET b1 == WriteByte(b, LBRACK)
             b2 == IF e.instruction.op = "stringInstr"
                   THEN stringLoop(v.elems, b1, 0)
                   ELSE sliceLoop(e.instruction, v.elems, b1, 0)
         IN  WriteByte(b2, RBRACK)

RECURSIVE strStrLoop(_, _, _)
\* the iteration of strStrInstr over the entries, from index i (0-based)
strStrLoop(entries, b, i) ==
    IF i >= Len(entries) THEN b
    ELSE LET b1 == IF i # 0 THEN Write(b, <<34, 44, 34>>) ELSE b
             b2 == ptrStringToBuf(entries[i + 1].k, b1)
             b3 == Write(b2, <<34, 58, 34>>)
         IN  strStrLoop(entries, ptrStringToBuf(entries[i + 1].e, b3), i + 1)

\* func (e *MapEncoder) strStrInstr(): the instruction, run on the map m
strStrInstr(m, b) ==
    IF m.isnil THEN Write(b, null)
    ELSE IF Len(m.entries) = 0 THEN Write(b, emptyObj)
    ELSE Write(strStrLoop(m.entries, Write(b, <<123, 34>>), 0), <<34, 125>>)

\* the first loop of sortStrStrInstr: one record per entry, in iteration
\* order, holding the key string and the element
collectStrStr(entries) ==
    [i \in 1..Len(entries) |-> [k |-> entries[i].k, e |-> entries[i].e]]

RECURSIVE sortedStrStrLoop(_, _, _)
\* the second loop of sortStrStrInstr over the sorted records
sortedStrStrLoop(kvs, b, i) ==
    IF i >= Len(kvs) THEN b
    ELSE LET b1 == IF i # 0 THEN Write(b, <<34, 44, 34>>) ELSE b
             b2 == ptrStringToBuf(kvs[i + 1].k, b1)
             b3 == Write(b2, <<34, 58, 34>>)
         IN  sortedStrStrLoop(kvs, ptrStringToBuf(kvs[i + 1].e, b3), i + 1)

\* func (e *MapEncoder) sortStrStrInstr(): the instruction, run on the map m
sortStrStrInstr(m, b) ==
    LET kvs == Sort(collectStrStr(m.entries), Memory(b))
    IN  IF m.isnil THEN Write(b, null)
        ELSE IF Len(m.entries) = 0 THEN Write(b, emptyObj)
        ELSE Write(sortedStrStrLoop(kvs, Write(b, <<123, 34>>), 0),
                   <<34, 125>>)

RECURSIVE instrLoopSkipRepeat(_, _, _, _)
\* instrLoop stepping over the entry after each one it writes
instrLoopSkipRepeat(ins, entries, b, i) ==
    IF i >= Len(entries) THEN b
    ELSE LET b1 == IF i # 0 THEN Write(b, <<44, 34>>) ELSE b
             b2 == ApplyConv(ins.kconv, entries[i + 1].k, b1)
             b3 == Write(b2, <<34, 58>>)
         IN  instrLoopSkipRepeat(ins, entries,
                       ApplyConv(ins.econv, entries[i + 1].e, b3), i + 2)

RECURSIVE instrLoop(_, _, _, _)
\* the iteration of instr over the entries, from index i (0-based)
instrLoop(ins, entries, b, i) ==
    IF i >= Len(entries) THEN b
    ELSE LET b1 == IF i # 0 THEN Write(b, <<44, 34>>) ELSE b
             b2 == ApplyConv(ins.kconv, entries[i + 1].k, b1)
             b3 == Write(b2, <<34, 58>>)
         IN  instrLoop(ins, entries,
                       ApplyConv(ins.econv, entries[i + 1].e, b3), i + 1)

\* func (e *MapEncoder) instr(kconv, econv): the instruction, run on the
\* map m
instr(ins, m, b) ==
    IF m.isnil THEN Write(b, null)
    ELSE IF Len(m.entries) = 0 THEN Write(b, emptyObj)
    ELSE WriteByte(instrLoop(ins, m.entries, Write(b, <<123, 34>>), 0), RBRACE)

RECURSIVE collectKeys(_, _, _, _)
\* the first loop of sortInstr, from entry i (0-based): renders each key into
\* the buffer and records its span and the element; yields buffer and records
collectKeys(ins, entries, st, i) ==
    IF i >= Len(entries) THEN st
    ELSE LET start == Len(st.b.Bytes)
             b1 == ApplyConv(ins.kconv, entries[i + 1].k, st.b)
             klen == Len(b1.Bytes) - start
         IN  collectKeys(ins, entries,
                [b |-> b1,
                 kvs |-> Append(st.kvs, keyHeader(st.b, b1, start, klen,
                                                  entries[i + 1].e))],
                i + 1)

RECURSIVE sortedLoop(_, _, _, _)
\* the second loop of sortInstr over the sorted records
sortedLoop(ins, kvs, b, i) ==
    IF i >= Len(kvs) THEN b
    ELSE LET b1 == IF i # 0 THEN Write(b, <<44, 34>>) ELSE b
             b2 == Write(b1, keyText(kvs[i + 1], Memory(b1)))
             b3 == Write(b2, <<34, 58>>)
         IN  sortedLoop(ins, kvs, ApplyConv(ins.econv, kvs[i + 1].e, b3), i + 1)

\* w.Bytes = append(w.Bytes[:0], w.Bytes[bufEnd:]...), taking the Buffer to
\* hold nothing before the call
spliceFromZero(b, bufStart, bufEnd) ==
    IF b.panicked THEN b
    ELSE [b EXCEPT !.Bytes = SubSeq(@, bufEnd + 1, Len(@))]

\* w.Bytes = append(w.Bytes[:bufStart], w.Bytes[bufEnd:]...)
splice(b, bufStart, bufEnd) ==
    IF b.panicked THEN b
    ELSE [b EXCEPT !.Bytes =
            SubSeq(@, 1, bufStart) \o SubSeq(@, bufEnd + 1, Len(@))]

\* sortInstr without the test for a map of no entries
sortInstrNoEmptyTest(ins, m, b) ==
    LET bufStart == Len(b.Bytes)
        st == collectKeys(ins, m.entries, [b |-> b, kvs |-> <<>>], 0)
        bufEnd == Len(st.b.Bytes)
        kvs == Sort(st.kvs, Memory(st.b))
        b1 == sortedLoop(ins, kvs, Write(st.b, <<123, 34>>), 0)
    IN  IF m.isnil THEN Write(b, null)
        ELSE WriteByte(splice(b1, bufStart, bufEnd), RBRACE)

\* func (e *MapEncoder) sortInstr(kconv, econv): the instruction, run on the
\* map m
sortInstr(ins, m, b) ==
    LET bufStart == Len(b.Bytes)
        st == collectKeys(ins, m.entries, [b |-> b, kvs |-> <<>>], 0)
        bufEnd == Len(st.b.Bytes)
        kvs == Sort(st.kvs, Memory(st.b))
        b1 == sortedLoop(ins, kvs, Write(st.b, <<123, 34>>), 0)
    IN  IF m.isnil THEN Write(b, null)
        ELSE IF Len(m.entries) = 0 THEN Write(b, emptyObj)
        ELSE WriteByte(splice(b1, bufStart, bufEnd), RBRACE)

\* the body of MapEncoder.Marshal: e.instruction(s, w)
MapEncoderMarshal(e, m, b) ==
    CASE e.instruction.op = "strStrInstr" -> strStrInstr(m, b)
      [] e.instruction.op = "sortStrStrInstr" -> sortStrStrInstr(m, b)
      [] e.instruction.op = "instr" -> instr(e.instruction, m, b)
      [] e.instruction.op = "sortInstr" -> sortInstr(e.instruction, m, b)

\* Marshal of the encoder e, of kind k, on the value v
Marshal(k, e, v, b) ==
    CASE k = "struct" -> StructEncoderMarshal(e, v, b)
      [] k = "slice" -> SliceEncoderMarshal(e, v, b)
      [] k = "map" -> MapEncoderMarshal(e, v, b)

---------------------------------------------------------------------------
(* The shapes compiled and the values marshalled in the model *)

\* text at nesting depth d:  "b" , "ab" , ""  at the top
StringVals(d) ==
    IF d <= 1 THEN {<<98>>, <<97, 98>>, <<>>}
    ELSE IF d = 2 THEN {<<97>>, <<98>>} ELSE {<<97>>}

\* integers at nesting depth d; their decimal text orders differently from
\* their value
IntVals(d) ==
    IF d <= 1 THEN {-5467984, -784, 0}
    ELSE IF d = 2 THEN {-784, 0} ELSE {7}

\* the text held by a textStruct: "" , "1"
TextVals == {<<>>, <<49>>}

\* what the String method of a stringerType returns: "" , "1"
StringerVals == {<<>>, <<49>>}

\* what the JSONEncode method of an encode0 writes: 1 , {}
JSONVals == {<<49>>, <<123, 125>>}

\* the bytes of a []byte: " , 1
ByteVals == {34, 49}

\* addresses of the pointees of pointer keys
Addrs == {1, 2}

\* the nil pointer
NilPtr == [isnil |-> TRUE]

\* a pointer to the value v stored at address a
Ref(a, v) == [isnil |-> FALSE, addr |-> a, elem |-> v]

\* what identifies a map key: a pointer key (ptr) is identified by its
\* address, any other key by its value
KeyId(k, ptr) ==
    IF ptr
    THEN (IF k.isnil THEN <<"nil">> ELSE <<"addr", k.addr>>)
    ELSE <<"val", k>>

RECURSIVE EntryLists(_, _, _, _)
\* the lists of at most n entries with pairwise different keys from K and
\* elements from V: a map's contents in some native iteration order
EntryLists(K, V, n, ptr) ==
    IF n = 0 THEN {<<>>}
    ELSE LET S == EntryLists(K, V, n - 1, ptr)
             fresh(s) ==
                {k \in K :
                    \A i \in 1..Len(s) : KeyId(s[i].k, ptr) # KeyId(k, ptr)}
         IN  S \cup
             UNION {{Append(s, [k |-> k, e |-> e]) : k \in fresh(s), e \in V} :
                        s \in {x \in S : Len(x) = n - 1}}

RECURSIVE Lists(_, _)
\* the lists of at most n elements of V
Lists(V, n) ==
    IF n = 0 THEN {<<>>}
    ELSE LET S == Lists(V, n - 1)
         IN  S \cup {Append(s, v) : s \in {x \in S : Len(x) = n - 1}, v \in V}

\* the lists of exactly n elements of V
ListsOfLen(V, n) == {s \in Lists(V, n) : Len(s) = n}

\* whether values of type t are built from other values
Composite(t) == t.kind \in {"Ptr", "Slice", "Array", "Map", "Struct"}

\* the longest slice of elements of type t at nesting depth d
NestedLen(t, d) ==
    IF d = 0 THEN MaxLen ELSE IF Composite(t) THEN 1 ELSE 2

\* the most entries of a map with elements of type t at nesting depth d
NestedEntries(t, d) ==
    IF d = 0 THEN (IF Composite(t) THEN MaxEntries - 1 ELSE MaxEntries)
    ELSE IF Composite(t) THEN 1 ELSE 2

RECURSIVE ValuesOf(_, _)
RECURSIVE FieldValues(_, _, _)

\* the nesting depth of the elements of a map at depth d: a nested map has
\* the keys of its depth and elements from the next depth's smaller set
ElemDepth(d) == IF d = 0 THEN 1 ELSE d + 2

\* the keys of type t: pointer keys may be different pointers to equal
\* pointees
KeyValues(t, d) ==
    IF t.kind = "Ptr"
    THEN {NilPtr} \cup
         {Ref(a, v) : a \in Addrs, v \in ValuesOf(t.elem, d + 1)}
    ELSE ValuesOf(t, d)

\* the values of the fields i.. of a struct type, as lists
FieldValues(fields, i, d) ==
    IF i > Len(fields) THEN {<<>>}
    ELSE {<<v>> \o rest :
            v \in ValuesOf(fields[i].Type, d + 1),
            rest \in FieldValues(fields, i + 1, d)}

\* the values of type t marshalled at nesting depth d
ValuesOf(t, d) ==
    CASE t.kind = "Bool" -> BOOLEAN
      [] t.kind = "Int" -> IntVals(d)
      [] t.kind = "String" -> StringVals(d)
      [] t.kind = "Ptr" ->
            {NilPtr} \cup {Ref(1, v) : v \in ValuesOf(t.elem, d + 1)}
      [] t.kind = "Slice" ->
            {[isnil |-> TRUE, elems |-> <<>>]} \cup
            {[isnil |-> FALSE, elems |-> s] :
                s \in Lists(ValuesOf(t.elem, d + 1), NestedLen(t.elem, d))}
      [] t.kind = "Array" -> ListsOfLen(ValuesOf(t.elem, d + 1), t.len)
      [] t.kind = "Map" ->
            {[isnil |-> TRUE, entries |-> <<>>]} \cup
            {[isnil |-> FALSE, entries |-> s] :
                s \in EntryLists(KeyValues(t.key, d + 1),
                                 ValuesOf(t.elem, ElemDepth(d)),
                                 NestedEntries(t.elem, d),
                                 t.key.kind = "Ptr")}
      [] t.kind = "Struct" ->
            CASE HasMethod(t, "MarshalText") ->
                    {[text |-> x] : x \in TextVals}
              [] HasMethod(t, "String") -> {[str |-> x] : x \in StringerVals}
              [] HasMethod(t, "JSONEncode") -> {[json |-> x] : x \in JSONVals}
              [] OTHER -> FieldValues(t.fields, 1, d)
      [] t.kind = "Uint8" -> ByteVals
      [] OTHER -> {[opaque |-> t.kind]}

---------------------------------------------------------------------------
(* The shapes compiled in the model *)

\* the test type innerStruct: struct { S string `json:"s"` }
innerStruct == StructOf(<<Field("S", <<115>>, Kind("String"))>>)

\* the json tag of the field at position i when it is tagged: "a", "b", "c"
TagAt(i) == <<96 + i>>

\* struct { F1 int; F2 string; F3 bool } with the fields in tagged carrying
\* a json key name
taggedStruct(tagged) ==
    StructOf(<<
        Field("F1", IF 1 \in tagged THEN TagAt(1) ELSE <<>>, Kind("Int")),
        Field("F2", IF 2 \in tagged THEN TagAt(2) ELSE <<>>, Kind("String")),
        Field("F3", IF 3 \in tagged THEN TagAt(3) ELSE <<>>, Kind("Bool"))>>)

\* struct { P T `json:"p"` }
oneField(t) == StructOf(<<Field("P", <<112>>, t)>>)

\* struct { P T `json:"p,opt"` }
optField(t, opt) == StructOf(<<Field("P", <<112>> \o COMMA \o opt, t)>>)

\* the struct shapes with a tag option
OptionTypes ==
    {optField(t, OptStringer) :
        t \in {stringerType, PtrTo(stringerType), Kind("Int")}} \cup
    {optField(t, OptEncoder) :
        t \in {encode0, PtrTo(encode0), Kind("Int"), PtrTo(Kind("Int"))}} \cup
    {optField(t, OptRaw) :
        t \in {Kind("String"), SliceOf(Kind("Uint8")),
               PtrTo(Kind("String")), PtrTo(SliceOf(Kind("Uint8")))}}

\* struct { X T `json:"x"` or untagged; N int `json:"n"` }
withField(t, tagged) ==
    StructOf(<<Field("X", IF tagged THEN <<120>> ELSE <<>>, t),
               Field("N", <<110>>, Kind("Int"))>>)

\* types the encoders render, as the pointee of a reference, a field,
\* an element
PointeeTypes ==
    {Kind("Int"), Kind("String"), Kind("Bool"), innerStruct,
     MapOf(Kind("String"), Kind("Int")),
     MapOf(Kind("String"), Kind("String"))}

\* types no encoder has a conversion for
UnsupportedTypes ==
    {Kind("Chan"), Kind("Func"), Kind("Complex128"), Kind("Interface"),
     Kind("UnsafePointer")}

\* field types NewStructEncoder cannot render
UnrenderableFieldTypes ==
    UnsupportedTypes \cup
    {PtrTo(PtrTo(Kind("Int"))), ArrayOf(2, Kind("Chan")),
     PtrTo(Kind("Chan"))}

\* the struct shapes compiled
StructTypes ==
    {taggedStruct(tagged) : tagged \in SUBSET {1, 2, 3}} \cup
    {oneField(t) : t \in PointeeTypes} \cup
    {oneField(PtrTo(t)) : t \in PointeeTypes} \cup
    {oneField(SliceOf(Kind("Int"))), oneField(ArrayOf(2, Kind("Int"))),
     oneField(ArrayOf(2, Kind("String"))), oneField(ArrayOf(0, Kind("Int")))}
    \cup
    {withField(t, tagged) : t \in UnrenderableFieldTypes, tagged \in BOOLEAN}
    \cup {withField(PtrTo(SliceOf(Kind("Int"))), TRUE)}
    \cup OptionTypes

\* the slice shapes compiled
SliceTypes ==
    {SliceOf(t) : t \in PointeeTypes} \cup
    {SliceOf(PtrTo(t)) : t \in PointeeTypes} \cup
    {SliceOf(SliceOf(Kind("Int"))), SliceOf(PtrTo(SliceOf(Kind("Int"))))} \cup
    {SliceOf(t) : t \in UnsupportedTypes} \cup
    {SliceOf(ArrayOf(2, Kind("Int"))), SliceOf(PtrTo(Kind("Chan")))}

\* the map shapes compiled
MapTypes ==
    {MapOf(k, e) : k \in {Kind("String"), Kind("Int")},
                   e \in {Kind("String"), Kind("Int")}} \cup
    {MapOf(Kind("Bool"), Kind("Int")), MapOf(Kind("String"), Kind("Bool")),
     MapOf(textStruct, Kind("Int")),
     MapOf(PtrTo(textStruct), Kind("String"))} \cup
    {MapOf(Kind("String"), PtrTo(t)) : t \in PointeeTypes} \cup
    {MapOf(Kind("String"), t) :
        t \in {innerStruct, MapOf(Kind("String"), Kind("String")),
               MapOf(Kind("Int"), Kind("Int")), SliceOf(Kind("Int")),
               SliceOf(MapOf(Kind("String"), Kind("String")))}} \cup
    {MapOf(Kind("Chan"), Kind("Int")), MapOf(Kind("String"), Kind("Chan")),
     MapOf(Kind("String"), PtrTo(Kind("Chan"))),
     MapOf(StructOf(<<>>), Kind("String")),
     MapOf(PtrTo(Kind("Int")), Kind("String")),
     MapOf(Kind("Chan"), Kind("Chan")),
     MapOf(Kind("String"), ArrayOf(2, Kind("Int"))),
     MapOf(Kind("String"), PtrTo(PtrTo(Kind("Int"))))}

\* the Configs a compile is given
Configs == {DefaultConfig, SetSortMapKeys(DefaultConfig, TRUE)}

\* the bytes a caller writes to the Buffer before Marshal: "x"
PrefixBytes == {<<120>>}

---------------------------------------------------------------------------
(* The program *)

VARIABLES
    pc,     \* "start", "compiled", "compile_panic", "marshalled",
            \* "marshal_panic"
    which,  \* the constructor called: "struct", "slice", "map" or "none"
    shape,  \* the type handed to the constructor
    cfg,    \* the Config the constructor compiled under
    withConfig,  \* whether the constructor called took a Config
    enc,    \* the encoder returned, or the panic raised, by the constructor
    w,      \* the Buffer handed to Marshal
    pre,    \* the bytes the Buffer held when Marshal was called
    v,      \* the value handed to Marshal
    calls,  \* the Marshal calls running side by side on enc: for each its
            \* state, value, own Buffer and stack of frames
    hiterPool,     \* the iterators in hiterPool
    mapSlicePool,  \* the mapSlices in mapSlicePool
    heap,   \* the iterators and mapSlices allocated so far, by address
    encAddr,  \* the address of the encoder in enc (0: none constructed)
    second, \* the encoder a second call of the same constructor returned,
            \* its address, and the Buffer it marshalled v into
    bufs,     \* the Buffers allocated for bufpool so far, by address
    bufpool,  \* the Buffers in bufpool, by address
    taken,  \* what the last call of NewBufferFromPool(WithCap) returned
    compiling  \* the constructor calls of a compile that are on the stack

\* what the calls running side by side act on
conc == <<calls, hiterPool, mapSlicePool, heap>>

\* what a second call of the constructor acts on
twice == <<encAddr, second>>

\* what the callers of bufpool act on
pooled == <<bufs, bufpool, taken>>

\* what neither the encoders nor their callers change
aside == <<pooled, compiling>>

vars ==
    <<pc, which, shape, cfg, withConfig, enc, w, pre, v, conc, twice, aside>>

\* no Buffer taken from bufpool yet
NoneTaken == [none |-> TRUE]

\* no constructor has been called step by step
NotCompiling == [st |-> "idle"]

\* bufpool as it starts: empty, no Buffer allocated
NoBuffers ==
    /\ bufs = <<>>
    /\ bufpool = {}
    /\ taken = NoneTaken
    /\ compiling = NotCompiling

\* no second encoder constructed
NoSecond == [none |-> TRUE]

\* no Buffer handed to the second encoder
NoBuffer == [none |-> TRUE]

\* the goroutines that call Marshal on the one encoder
Calls == 1..NumCalls

\* a goroutine that has not called Marshal
Idle == [st |-> "idle"]

\* nothing marshalled yet
NoValue == [none |-> TRUE]

Init ==
    /\ pc = "start"
    /\ which = "none"
    /\ shape = Kind("Invalid")
    /\ cfg = DefaultConfig
    /\ withConfig = FALSE
    /\ enc = PanicResult(NoPanic)
    /\ w = NewBuffer(<<>>)
    /\ pre = <<>>
    /\ v = NoValue
    /\ calls = [c \in Calls |-> Idle]
    /\ hiterPool = {}
    /\ mapSlicePool = {}
    /\ heap = <<>>
    /\ encAddr = 0
    /\ second = NoSecond
    /\ NoBuffers

\* e := &StructEncoder{} (&SliceEncoder{}, &MapEncoder{cfg: cfg}) taking the
\* address of what the caller still refers to
NewObjectReuse(live) == 1

\* e := &StructEncoder{} (&SliceEncoder{}, &MapEncoder{cfg: cfg}): the address
\* of a new object, the lowest one that no object the caller still refers to
\* has
NewObject(live) ==
    CHOOSE a \in 1..(Cardinality(live) + 1) :
        a \notin live /\ \A b \in 1..(a - 1) : b \in live

\* the constructor called on the shape t: k names the encoder, given tells
\* whether the WithConfig variant is called
Construct(k, t, c, given) ==
    CASE k = "struct" ->
            IF given THEN NewStructEncoderWithConfig(t, c)
            ELSE NewStructEncoder(t)
      [] k = "slice" ->
            IF given THEN NewSliceEncoderWithConfig(t, c)
            ELSE NewSliceEncoder(t)
      [] k = "map" ->
            IF given THEN NewMapEncoderWithConfig(t, c) ELSE NewMapEncoder(t)

\* Marshal of the encoder e that constructor k returned
MarshalOf(k, e, x, b) ==
    CASE k = "struct" -> StructMarshal(e, x, b)
      [] k = "slice" -> SliceMarshal(e, x, b)
      [] k = "map" -> MapMarshal(e, x, b)

\* the state after a constructor call returned e or panicked
Compiled(k, t, c, e, given) ==
    /\ which' = k
    /\ withConfig' = given
    /\ shape' = t
    /\ cfg' = c
    /\ enc' = e
    /\ pc' = IF Panicked(e) THEN "compile_panic" ELSE "compiled"
    /\ encAddr' = NewObject({})
    /\ second' = NoSecond
    /\ UNCHANGED <<w, pre, v, conc, aside>>

\* a call of NewStructEncoderWithConfig
CompileStruct ==
    /\ pc = "start"
    /\ \E t \in StructTypes, c \in Configs :
            Compiled("struct", t, c, NewStructEncoderWithConfig(t, c), TRUE)

\* a call of NewStructEncoder, which passes DefaultConfig on
CompileStructDefault ==
    /\ pc = "start"
    /\ \E t \in StructTypes :
            Compiled("struct", t, DefaultConfig, NewStructEncoder(t), FALSE)

\* a call of NewSliceEncoderWithConfig
CompileSlice ==
    /\ pc = "start"
    /\ \E t \in SliceTypes, c \in Configs :
            Compiled("slice", t, c, NewSliceEncoderWithConfig(t, c), TRUE)

\* a call of NewSliceEncoder, which passes DefaultConfig on
CompileSliceDefault ==
    /\ pc = "start"
    /\ \E t \in SliceTypes :
            Compiled("slice", t, DefaultConfig, NewSliceEncoder(t), FALSE)

\* a call of NewMapEncoderWithConfig
CompileMap ==
    /\ pc = "start"
    /\ \E t \in MapTypes, c \in Configs :
            Compiled("map", t, c, NewMapEncoderWithConfig(t, c), TRUE)

\* a call of NewMapEncoder, which passes DefaultConfig on
CompileMapDefault ==
    /\ pc = "start"
    /\ \E t \in MapTypes :
            Compiled("map", t, DefaultConfig, NewMapEncoder(t), FALSE)

\* the caller writes to the Buffer before handing it to Marshal
BufferWrite ==
    /\ pc = "compiled"
    /\ Len(w.Bytes) < MaxPrefix
    /\ \E bs \in PrefixBytes : w' = Write(w, bs)
    /\ UNCHANGED <<pc, which, shape, cfg, withConfig, enc, pre, v, conc, twice,
                   aside>>

\* the state after Marshal ran on value x and left the Buffer as b
Marshalled(x, b) ==
    /\ w' = b
    /\ pre' = w.Bytes
    /\ v' = x
    /\ pc' = IF b.panicked THEN "marshal_panic" ELSE "marshalled"
    /\ UNCHANGED <<which, shape, cfg, withConfig, enc, conc, twice, aside>>

\* a call of StructEncoder.Marshal
MarshalStruct ==
    /\ pc = "compiled" /\ which = "struct"
    /\ \E x \in ValuesOf(shape, 0) : Marshalled(x, StructMarshal(enc, x, w))

\* a call of SliceEncoder.Marshal
MarshalSlice ==
    /\ pc = "compiled" /\ which = "slice"
    /\ \E x \in ValuesOf(shape, 0) : Marshalled(x, SliceMarshal(enc, x, w))

\* a call of MapEncoder.Marshal
MarshalMap ==
    /\ pc = "compiled" /\ which = "map"
    /\ \E x \in ValuesOf(shape, 0) : Marshalled(x, MapMarshal(enc, x, w))

\* the caller resets the Buffer after a Marshal that returned
BufferReset ==
    /\ pc = "marshalled"
    /\ w' = Reset(w)
    /\ pc' = "compiled"
    /\ pre' = <<>>
    /\ v' = NoValue
    /\ second' = IF "addr" \in DOMAIN second
                  THEN [second EXCEPT !.x = NoBuffer, !.w = NoBuffer]
                  ELSE second
    /\ UNCHANGED <<which, shape, cfg, withConfig, enc, conc, encAddr, aside>>

\* the rearrangements of the entries es: the orders in which the runtime's
\* iteration can visit the entries of one map
IterationOrders(es) ==
    {[i \in 1..Len(es) |-> es[p[i]]] : p \in Permutations(1..Len(es))}

\* the iteration of the first call again, whatever the runtime would choose
SameIteration(es) == {es}

RECURSIVE Iterations(_, _)
RECURSIVE IterationsOfEach(_, _)
RECURSIVE IterationsOfFields(_, _, _)
RECURSIVE IterationsOfEntries(_, _)

\* the value x of shape t as a later Marshal call finds it: the same value,
\* every map in it iterated in an order of the runtime's choice
Iterations(t, x) ==
    CASE t.kind = "Ptr" ->
            IF x.isnil THEN {x}
            ELSE {[x EXCEPT !.elem = y] : y \in Iterations(t.elem, x.elem)}
      [] t.kind = "Slice" ->
            {[x EXCEPT !.elems = s] : s \in IterationsOfEach(t.elem, x.elems)}
      [] t.kind = "Array" -> IterationsOfEach(t.elem, x)
      [] t.kind = "Map" ->
            {[x EXCEPT !.entries = es] :
                es \in UNION {IterationOrders(s) :
                            s \in IterationsOfEntries(t.elem, x.entries)}}
      [] t.kind = "Struct" ->
            IF \E m \in {"MarshalText", "String", "JSONEncode"} :
                    HasMethod(t, m)
            THEN {x}
            ELSE IterationsOfFields(t.fields, 1, x)
      [] OTHER -> {x}

IterationsOfEach(t, s) ==
    IF s = <<>> THEN {<<>>}
    ELSE {<<h>> \o r : h \in Iterations(t, Head(s)),
                       r \in IterationsOfEach(t, Tail(s))}

IterationsOfEntries(t, es) ==
    IF es = <<>> THEN {<<>>}
    ELSE {<<[Head(es) EXCEPT !.e = y]>> \o r :
            y \in Iterations(t, Head(es).e),
            r \in IterationsOfEntries(t, Tail(es))}

IterationsOfFields(fields, i, x) ==
    IF i > Len(fields) THEN {<<>>}
    ELSE {<<h>> \o r : h \in Iterations(fields[i].Type, x[i]),
                       r \in IterationsOfFields(fields, i + 1, x)}

\* the caller calls the constructor a second time with the same shape and
\* Config and keeps both encoders
CompileAgain ==
    /\ pc = "compiled"
    /\ "none" \in DOMAIN second
    /\ second' = [addr |-> NewObject({encAddr}),
                  enc |-> Construct(which, shape, cfg, withConfig),
                  x |-> NoBuffer,
                  w |-> NoBuffer]
    /\ UNCHANGED <<pc, which, shape, cfg, withConfig, enc, w, pre, v, conc,
                   encAddr, aside>>

\* the caller marshals the value the first encoder was given with the second
\* encoder, into a second Buffer that holds what the first held before
MarshalAgain ==
    /\ pc \in {"marshalled", "marshal_panic"}
    /\ "addr" \in DOMAIN second
    /\ "none" \in DOMAIN second.w
    /\ \E x \in Iterations(shape, v) :
            second' = [second EXCEPT
                        !.x = x,
                        !.w = MarshalOf(which, second.enc, x, NewBuffer(pre))]
    /\ UNCHANGED <<pc, which, shape, cfg, withConfig, enc, w, pre, v, conc,
                   encAddr, aside>>

\* the caller recovers from the panic of a constructor; which, shape, cfg
\* and enc keep the record of the failed call
Recovered ==
    /\ pc = "compile_panic"
    /\ pc' = "start"
    /\ UNCHANGED <<which, shape, cfg, withConfig, enc, w, pre, v, conc, twice,
                   aside>>

Next ==
    \/ CompileStruct
    \/ CompileSlice
    \/ CompileMap
    \/ CompileStructDefault
    \/ CompileSliceDefault
    \/ CompileMapDefault
    \/ BufferWrite
    \/ MarshalStruct
    \/ MarshalSlice
    \/ MarshalMap
    \/ BufferReset
    \/ Recovered
    \/ CompileAgain
    \/ MarshalAgain

Spec == Init /\ [][Next]_vars

---------------------------------------------------------------------------
(* The JSON text the claims speak of, written out independently of the     *)
(* instructions                                                            *)

RECURSIVE Join(_, _)
\* the texts in parts, in order, with sep between neighbours
Join(parts, sep) ==
    IF Len(parts) = 0 THEN <<>>
    ELSE IF Len(parts) = 1 THEN parts[1]
    ELSE parts[1] \o sep \o Join(Tail(parts), sep)

\* a Buffer with nothing in it
EmptyBuffer == NewBuffer(<<>>)

RECURSIVE ValueText(_, _, _)
\* the rendering of the value x of type t on its own, compiled under c
ValueText(t, x, c) ==
    CASE t.kind = "Int" -> AppendInt(x)
      [] t.kind = "String" -> QUOTE \o x \o QUOTE
      [] t.kind = "Bool" -> ptrBoolToBuf(x, EmptyBuffer).Bytes
      [] t.kind = "Ptr" ->
            IF x.isnil THEN null ELSE ValueText(t.elem, x.elem, c)
      [] t.kind = "Struct" ->
            StructMarshal(NewStructEncoderWithConfig(t, c), x, EmptyBuffer).Bytes
      [] t.kind = "Map" ->
            MapMarshal(NewMapEncoderWithConfig(t, c), x, EmptyBuffer).Bytes
      [] t.kind = "Slice" ->
            SliceMarshal(NewSliceEncoderWithConfig(t, c), x, EmptyBuffer).Bytes

\* the text of the key k of type t
KeyText(t, k) ==
    CASE t.kind = "Int" -> AppendInt(k)
      [] t.kind = "String" -> k
      [] t.kind = "Bool" -> ptrBoolToBuf(k, EmptyBuffer).Bytes
      [] t.kind = "Struct" -> k.text
      [] t.kind = "Ptr" -> IF k.isnil THEN <<>> ELSE k.elem.text

RECURSIVE TextBefore(_, _)
\* a comes strictly before b in byte-wise lexicographic order
TextBefore(a, b) ==
    IF Len(a) = 0 THEN Len(b) # 0
    ELSE IF Len(b) = 0 THEN FALSE
    ELSE IF a[1] # b[1] THEN a[1] < b[1]
    ELSE TextBefore(Tail(a), Tail(b))

\* the object text of the entries es, in the order given, of a map of type t
ObjectText(t, es, c) ==
    LBRACE \o
    Join([i \in 1..Len(es) |->
            QUOTE \o KeyText(t.key, es[i].k) \o QUOTE \o COLON \o
            ValueText(t.elem, es[i].e, c)], COMMA) \o
    RBRACE

\* the rearrangements of the entries es in which the key texts ascend
AscendingOrders(t, es) ==
    {[i \in 1..Len(es) |-> es[p[i]]] :
        p \in {q \in Permutations(1..Len(es)) :
                \A i \in 1..(Len(es) - 1) :
                    ~TextBefore(KeyText(t.key, es[q[i + 1]].k),
                                KeyText(t.key, es[q[i]].k))}}

\* Marshal has returned for an encoder of the given constructor
Done(k) == pc = "marshalled" /\ which = k

\* the bytes the last Marshal call appended
out == SubSeq(w.Bytes, Len(pre) + 1, Len(w.Bytes))

---------------------------------------------------------------------------
(* Claims *)

\* the indices of the fields of struct type t that carry a json key name
TaggedFields(t) ==
    SelectSeq([i \in 1..Len(t.fields) |-> i],
              LAMBDA i : parseTag(t.fields[i].Tag).tag # <<>>)

\* types whose rendering as a value is given by ValueText
HasValueText(t) ==
    \/ t.kind \in {"Int", "String", "Bool", "Struct", "Map", "Slice"}
    \/ t.kind = "Ptr" /\ t.elem.kind \in {"Int", "String", "Bool", "Struct", "Map"}

\* the struct type t with the json key name of every field but field i
\* taken away
OnlyTagged(t, i) ==
    [t EXCEPT !.fields =
        [j \in 1..Len(t.fields) |->
            IF j = i THEN t.fields[j] ELSE [t.fields[j] EXCEPT !.Tag = <<>>]]]

\* the member the tagged field i of the struct value x of type t contributes:
\* "name":value, the value being what the field renders as when it is the
\* only tagged field of the struct
Member(t, i, x, c) ==
    LET f == t.fields[i]
        key == QUOTE \o parseTag(f.Tag).tag \o QUOTE \o COLON
        alone == StructMarshal(NewStructEncoderWithConfig(OnlyTagged(t, i), c),
                               x, EmptyBuffer).Bytes
    IN  IF HasValueText(f.Type) /\ parseTag(f.Tag).opts = <<>>
        THEN key \o ValueText(f.Type, x[i], c)
        ELSE SubSeq(alone, 2, Len(alone) - 1)

\* C1: StructEncoder.Marshal appends one object whose members are exactly the
\* fields carrying a json key name, in declaration order, each "name":value,
\* with one comma between neighbours and none before the first or after the
\* last; no tagged field gives {}.
C1_MembersInDeclarationOrder ==
    Done("struct") =>
        LET idx == TaggedFields(shape)
        IN  /\ SubSeq(w.Bytes, 1, Len(pre)) = pre
            /\ out = LBRACE \o
                     Join([j \in 1..Len(idx) |->
                            Member(shape, idx[j], v, cfg)],
                          COMMA) \o
                     RBRACE

\* a struct whose first field is untagged and whose other two are tagged has
\* been marshalled
C1_Witness ==
    /\ Done("struct")
    /\ shape = taggedStruct({2, 3})
    /\ v[3] = FALSE
    /\ out = <<123, 34, 98, 34, 58, 34, 97, 98, 34, 44, 34, 99, 34, 58,
               102, 97, 108, 115, 101, 125>>

\* C2: a nil reference to a primitive, text, record or mapping renders as the
\* bare literal null, a present one as its pointee renders as a value of its
\* own kind, as a struct field without option and as a map value.
C2_NullableReference ==
    /\ (Done("struct") /\ \E t \in PointeeTypes : shape = oneField(PtrTo(t))) =>
            out = <<123, 34, 112, 34, 58>> \o
                  (IF v[1].isnil THEN null
                   ELSE ValueText(shape.fields[1].Type.elem, v[1].elem, cfg)) \o
                  RBRACE
    /\ (Done("map") /\ shape.elem.kind = "Ptr" /\ ~v.isnil
         /\ Len(v.entries) > 0) =>
            LET deref(e) == IF e.isnil THEN null
                            ELSE ValueText(shape.elem.elem, e.elem, cfg)
                text(es) ==
                    LBRACE \o
                    Join([i \in 1..Len(es) |->
                            QUOTE \o es[i].k \o QUOTE \o COLON \o
                            deref(es[i].e)], COMMA) \o
                    RBRACE
            IN  IF SortMapKeys(cfg)
                THEN out \in {text(s) : s \in AscendingOrders(shape, v.entries)}
                ELSE out = text(v.entries)

\* a struct with a nil pointer-to-text field and a map with a nil and a
\* present pointer-to-text value have been marshalled
C2_Witness ==
    \/ /\ Done("struct")
       /\ shape = oneField(PtrTo(Kind("String")))
       /\ v[1].isnil
    \/ /\ Done("map")
       /\ shape = MapOf(Kind("String"), PtrTo(Kind("String")))
       /\ ~v.isnil
       /\ Len(v.entries) = 2
       /\ v.entries[1].e.isnil
       /\ ~v.entries[2].e.isnil

\* C3: with ordering on, a non-empty map is emitted as its entries in
\* ascending byte-wise order of the rendered key text, each key followed by
\* the value stored under it, on the text-to-text path and the generic path.
C3_AscendingKeyText ==
    (Done("map") /\ SortMapKeys(cfg) /\ ~v.isnil /\ Len(v.entries) > 0) =>
        out \in {ObjectText(shape, s, cfg) :
                    s \in AscendingOrders(shape, v.entries)}

\* the integer keys 0, -784, -5467984, met in that order, have been emitted
\* as -5467984, -784, 0
C3_Witness ==
    /\ Done("map") /\ SortMapKeys(cfg)
    /\ shape = MapOf(Kind("Int"), Kind("Int"))
    /\ ~v.isnil /\ Len(v.entries) = 3
    /\ v.entries[1].k = 0 /\ v.entries[2].k = -784
    /\ v.entries[3].k = -5467984
    /\ v.entries[1].e = 0 /\ v.entries[2].e = 0 /\ v.entries[3].e = 0
    /\ out = <<123, 34, 45, 53, 52, 54, 55, 57, 56, 52, 34, 58, 48, 44,
               34, 45, 55, 56, 52, 34, 58, 48, 44, 34, 48, 34, 58, 48, 125>>

\* no two entries of es have the same key text
DistinctKeyTexts(t, es) ==
    \A i, j \in 1..Len(es) :
        i # j => KeyText(t.key, es[i].k) # KeyText(t.key, es[j].k)

\* Marshal of the map v met in the iteration order r leaves the Buffer as
\* the last call left it
SameOutput(r) ==
    MapMarshal(enc, [v EXCEPT !.entries = r], NewBuffer(pre)) = w

EmptyMapText(m) == IF m.isnil THEN null ELSE emptyObj

\* the map m is nil or has no entries
NilOrEmpty(m) == m.isnil \/ Len(m.entries) = 0

\* C5: in both ordering modes and on both paths a nil map renders null and
\* a map of no entries renders {}, as the value marshalled, as a struct
\* field, as a slice element and as the value of a map entry.
C5_NilAndEmptyMap ==
    /\ (Done("map") /\ NilOrEmpty(v)) => out = EmptyMapText(v)
    /\ (Done("struct") /\ Len(shape.fields) = 1
         /\ shape.fields[1].Type.kind = "Map" /\ NilOrEmpty(v[1])) =>
            out = <<123, 34, 112, 34, 58>> \o EmptyMapText(v[1]) \o RBRACE
    /\ (Done("slice") /\ shape.elem.kind = "Map"
         /\ \A i \in 1..Len(v.elems) : NilOrEmpty(v.elems[i])) =>
            out = LBRACK \o
                  Join([i \in 1..Len(v.elems) |-> EmptyMapText(v.elems[i])],
                       COMMA) \o
                  RBRACK
    /\ (Done("map") /\ shape.elem.kind = "Map" /\ ~v.isnil
         /\ Len(v.entries) = 1 /\ NilOrEmpty(v.entries[1].e)) =>
            out = LBRACE \o QUOTE \o v.entries[1].k \o QUOTE \o COLON \o
                  EmptyMapText(v.entries[1].e) \o RBRACE

\* a map with integer keys and no entries has been marshalled with ordering
\* on
C5_Witness ==
    /\ Done("map") /\ SortMapKeys(cfg)
    /\ shape = MapOf(Kind("Int"), Kind("Int"))
    /\ ~v.isnil /\ Len(v.entries) = 0
    /\ out = emptyObj

\* C6: a slice of no elements, nil or not, renders [] and a slice of n
\* elements renders [, the n element renderings in index order with one
\* comma between neighbours, and ].
C6_SliceText ==
    Done("slice") =>
        /\ SubSeq(w.Bytes, 1, Len(pre)) = pre
        /\ out = LBRACK \o
                 Join([i \in 1..Len(v.elems) |->
                        ValueText(shape.elem, v.elems[i], cfg)], COMMA) \o
                 RBRACK

\* a nil slice of text has been marshalled
C6_Witness ==
    /\ Done("slice")
    /\ shape = SliceOf(Kind("String"))
    /\ v.isnil
    /\ out = <<91, 93>>

\* C7: with ordering off, a map of n > 0 entries renders {, each entry once
\* as "key":value in native iteration order with one comma between
\* neighbours, and }; the key of any kind is wrapped in double quotes.
C7_NativeOrderOnce ==
    (Done("map") /\ ~SortMapKeys(cfg) /\ ~v.isnil /\ Len(v.entries) > 0) =>
        /\ SubSeq(w.Bytes, 1, Len(pre)) = pre
        /\ out = ObjectText(shape, v.entries, cfg)

\* a map with integer keys met in the order 0, -784 has been marshalled with
\* ordering off
C7_Witness ==
    /\ Done("map") /\ ~SortMapKeys(cfg)
    /\ shape = MapOf(Kind("Int"), Kind("Int"))
    /\ ~v.isnil /\ Len(v.entries) = 2
    /\ v.entries[1].k = 0 /\ v.entries[2].k = -784
    /\ v.entries[1].e = 0 /\ v.entries[2].e = 0
    /\ out = <<123, 34, 48, 34, 58, 48, 44, 34, 45, 55, 56, 52, 34, 58, 48,
               125>>

\* the JSON literal of the boolean x
BoolLiteral(x) == IF x THEN btrue ELSE bfalse

\* C8: a boolean renders as exactly true or exactly false: as a slice
\* element, as a struct field, as a map value and as a map key.
C8_BooleanLiteral ==
    /\ (Done("slice") /\ shape = SliceOf(Kind("Bool"))) =>
            out = LBRACK \o
                  Join([i \in 1..Len(v.elems) |-> BoolLiteral(v.elems[i])],
                       COMMA) \o
                  RBRACK
    /\ (Done("struct") /\ shape = oneField(Kind("Bool"))) =>
            out = <<123, 34, 112, 34, 58>> \o BoolLiteral(v[1]) \o RBRACE
    /\ (Done("map") /\ shape = MapOf(Kind("String"), Kind("Bool"))
         /\ ~v.isnil /\ Len(v.entries) = 1) =>
            out = LBRACE \o QUOTE \o v.entries[1].k \o QUOTE \o COLON \o
                  BoolLiteral(v.entries[1].e) \o RBRACE
    /\ (Done("map") /\ shape = MapOf(Kind("Bool"), Kind("Int"))
         /\ ~v.isnil /\ Len(v.entries) = 1) =>
            out = LBRACE \o QUOTE \o BoolLiteral(v.entries[1].k) \o QUOTE \o
                  COLON \o AppendInt(v.entries[1].e) \o RBRACE

\* C9: every encoder a constructor returns can run: no Marshal call fails,
\* and no SliceEncoder is returned with its instruction unset.
C9_EveryEncoderRuns ==
    /\ pc # "marshal_panic"
    /\ (which = "slice" /\ pc # "start" /\ pc # "compile_panic") =>
            enc.instruction.op # "unset"

\* C10: NewStructEncoder panics, naming the field, for a tagged field of a
\* type it cannot render, and does not panic when that field is untagged.
C10_UnrenderableFieldPanics ==
    \A t \in UnrenderableFieldTypes :
        /\ (which = "struct" /\ shape = withField(t, TRUE)) =>
                (pc = "compile_panic" /\ enc.panic.name = "X")
        /\ (which = "struct" /\ shape = withField(t, FALSE)) =>
                pc # "compile_panic"

\* the kinds a map key or element is rendered from directly
LeafKinds == {"Bool", "Int", "String"}

\* the key of map type t is neither primitive, text nor a TextMarshaler
KeyUnsupported(t) ==
    t.key.kind \notin LeafKinds /\ ~HasMethod(t.key, "MarshalText")

\* the element of map type t is of a kind without rendering
ElemUnsupported(t) ==
    /\ t.elem.kind \notin LeafKinds \cup {"Slice", "Struct", "Map", "Ptr"}
    /\ ~HasMethod(t.elem, "MarshalText")

\* the element of map type t is a pointer to a kind without rendering
PtrElemUnsupported(t) ==
    /\ t.elem.kind = "Ptr"
    /\ t.elem.elem.kind \notin LeafKinds \cup {"Slice", "Struct", "Map"}
    /\ ~HasMethod(t.elem, "MarshalText")

\* the constructor of a map encoder has panicked with message m and
\* returned no encoder
MapPanic(m) == pc = "compile_panic" /\ enc = PanicResult([msg |-> m])

\* a step that calls a constructor again on the shape and Config whose
\* last compile panicked
CompiledAgain ==
    /\ pc = "start" /\ Panicked(enc)
    /\ pc' # "start"
    /\ which' = which /\ shape' = shape /\ cfg' = cfg

\* C11: NewMapEncoder panics with "unsupported elem type" for an element of
\* unsupported kind, with "unsupported ptr elem type" for a pointer to one,
\* and with "unsupported key type" for a key that is neither primitive, text
\* nor a TextMarshaler (the element is looked at first); compiling the shape
\* again panics with the same message.
C11_UnsupportedMapShape ==
    /\ [](which = "map" /\ pc # "start" =>
            /\ ElemUnsupported(shape) => MapPanic("unsupported elem type")
            /\ PtrElemUnsupported(shape) =>
                    MapPanic("unsupported ptr elem type")
            /\ (KeyUnsupported(shape) /\ ~ElemUnsupported(shape)
                 /\ ~PtrElemUnsupported(shape)) =>
                    MapPanic("unsupported key type"))
    /\ [][CompiledAgain => (pc' = "compile_panic" /\ enc' = enc)]_vars

\* the constructor has panicked on a map whose key is a struct without
\* MarshalText
C11_Witness ==
    /\ which = "map"
    /\ shape = MapOf(StructOf(<<>>), Kind("String"))
    /\ MapPanic("unsupported key type")

\* struct { X *[]int `json:"x"`; N int `json:"n"` }
ptrSliceField == withField(PtrTo(SliceOf(Kind("Int"))), TRUE)

\* C12: a struct field that is a pointer to a slice renders null when the
\* pointer is nil and the array of the slice's elements when it is not, and
\* Marshal returns.
C12_PointerToSliceField ==
    (which = "struct" /\ shape = ptrSliceField /\ v # NoValue) =>
        /\ pc = "marshalled"
        /\ out = <<123, 34, 120, 34, 58>> \o
                 (IF v[1].isnil THEN null
                  ELSE ValueText(SliceOf(Kind("Int")), v[1].elem, cfg)) \o
                 <<44, 34, 110, 34, 58>> \o AppendInt(v[2]) \o RBRACE

\* the slice types whose elements are pointers to a primitive, text, struct,
\* map or slice
SlicesOfPointers ==
    {SliceOf(PtrTo(t)) : t \in PointeeTypes \cup {SliceOf(Kind("Int"))}}

\* C13: NewSliceEncoder returns an encoder for a slice of pointers to a
\* primitive, text, struct, map or slice, and the encoder renders a nil
\* element as null and any other as its pointee, with single commas inside
\* [ ].
C13_SliceOfPointers ==
    (which = "slice" /\ shape \in SlicesOfPointers /\ pc # "start") =>
        /\ pc # "compile_panic"
        /\ Done("slice") =>
                out = LBRACK \o
                      Join([i \in 1..Len(v.elems) |->
                              IF v.elems[i].isnil THEN null
                              ELSE ValueText(shape.elem.elem,
                                             v.elems[i].elem, cfg)],
                           COMMA) \o
                      RBRACK

\* "p": the key of the one member of an optField struct
KeyP == <<34, 112, 34, 58>>

\* C14: a field with the stringer option whose type has a String method
\* renders as the String() result inside one pair of double quotes, and a nil
\* pointer field with the option renders as the bare literal null.
C14_StringerOption ==
    /\ (Done("struct") /\ shape = optField(stringerType, OptStringer)) =>
            out = LBRACE \o KeyP \o QUOTE \o v[1].str \o QUOTE \o RBRACE
    /\ (Done("struct") /\ shape = optField(PtrTo(stringerType), OptStringer)) =>
            out = LBRACE \o KeyP \o
                  (IF v[1].isnil THEN null
                   ELSE QUOTE \o v[1].elem.str \o QUOTE) \o
                  RBRACE

\* the struct shapes with one field carrying the encoder option
EncoderShapes ==
    {optField(t, OptEncoder) :
        t \in {encode0, PtrTo(encode0), Kind("Int"), PtrTo(Kind("Int"))}}

\* C15: a field with the encoder option renders as exactly the bytes its
\* JSONEncode method writes; a nil pointer field, and a field whose type is
\* no JSONEncoder, renders as the literal null and nothing of JSONEncode.
C15_EncoderOption ==
    (Done("struct") /\ shape \in EncoderShapes) =>
        LET t == shape.fields[1].Type
            isPtr == t.kind = "Ptr"
            base == IF isPtr THEN t.elem ELSE t
        IN  out = LBRACE \o KeyP \o
                  (IF isPtr /\ v[1].isnil THEN null
                   ELSE IF ~HasMethod(base, "JSONEncode") THEN null
                   ELSE IF isPtr THEN v[1].elem.json
                   ELSE v[1].json) \o
                  RBRACE

\* a struct whose encoder field is an int, no JSONEncoder, has been
\* marshalled next to one whose encoder field points to an encode0
C15_Witness ==
    /\ Done("struct")
    /\ \/ shape = optField(Kind("Int"), OptEncoder) /\ v[1] = -784
       \/ /\ shape = optField(PtrTo(encode0), OptEncoder)
          /\ ~v[1].isnil
          /\ out = <<123, 34, 112, 34, 58, 123, 125, 125>>

\* the struct shapes with one field carrying the raw option
RawShapes ==
    {optField(t, OptRaw) :
        t \in {Kind("String"), SliceOf(Kind("Uint8")),
               PtrTo(Kind("String")), PtrTo(SliceOf(Kind("Uint8")))}}

\* C16: a field with the raw option holding bytes or text renders non-empty
\* content verbatim, without quotes or escapes, and renders content of
\* length zero, nil content and a nil pointer to content as null.
C16_RawOption ==
    (Done("struct") /\ shape \in RawShapes) =>
        LET t == shape.fields[1].Type
            isPtr == t.kind = "Ptr"
            base == IF isPtr THEN t.elem ELSE t
            x == IF isPtr THEN v[1].elem ELSE v[1]
            content == IF base.kind = "String" THEN x ELSE x.elems
        IN  out = LBRACE \o KeyP \o
                  (IF isPtr /\ v[1].isnil THEN null
                   ELSE IF Len(content) = 0 THEN null
                   ELSE content) \o
                  RBRACE

\* a []byte field with the raw option holding a double quote and a digit
\* has been marshalled
C16_Witness ==
    /\ Done("struct")
    /\ shape = optField(SliceOf(Kind("Uint8")), OptRaw)
    /\ v[1].elems = <<34, 49>>
    /\ out = <<123, 34, 112, 34, 58, 34, 49, 125>>

\* the test map type map[*textStruct]string
ptrTextKeyMap == MapOf(PtrTo(textStruct), Kind("String"))

\* the rearrangements of the entries es in which no key of empty text comes
\* after a key of non-empty text
EmptyKeyFirstOrders(t, es) ==
    {[i \in 1..Len(es) |-> es[p[i]]] :
        p \in {q \in Permutations(1..Len(es)) :
                \A i, j \in 1..Len(es) :
                    (KeyText(t.key, es[q[i]].k) = <<>>
                      /\ KeyText(t.key, es[q[j]].k) # <<>>) => i < j}}

\* C17: in a map keyed by pointers to a TextMarshaler a nil key is emitted as
\* "" followed by the colon and its value and any other key as its
\* MarshalText result in double quotes, in native order with ordering off;
\* with ordering on the keys ascend and every empty key comes before every
\* non-empty one.
C17_PointerTextKey ==
    (Done("map") /\ shape = ptrTextKeyMap /\ ~NilOrEmpty(v)) =>
        LET member(e) ==
                QUOTE \o (IF e.k.isnil THEN <<>> ELSE e.k.elem.text) \o QUOTE \o
                COLON \o QUOTE \o e.e \o QUOTE
            text(es) ==
                LBRACE \o Join([i \in 1..Len(es) |-> member(es[i])], COMMA) \o
                RBRACE
        IN  IF SortMapKeys(cfg)
            THEN /\ out \in {text(s) : s \in AscendingOrders(shape, v.entries)}
                 /\ out \in {text(s) :
                                s \in EmptyKeyFirstOrders(shape, v.entries)}
            ELSE out = text(v.entries)

\* with ordering on, a map whose native order has the key "1" before the nil
\* key has been marshalled with the empty key first
C17_Witness ==
    /\ Done("map")
    /\ shape = ptrTextKeyMap
    /\ SortMapKeys(cfg)
    /\ ~v.isnil
    /\ Len(v.entries) = 2
    /\ ~v.entries[1].k.isnil
    /\ v.entries[1].k.elem.text = <<49>>
    /\ v.entries[2].k.isnil
    /\ out = <<123, 34, 34, 58, 34, 98, 34, 44,
               34, 49, 34, 58, 34, 97, 98, 34, 125>>

C19_DefaultAscending ==
    (Done("map") /\ ~withConfig /\ ~v.isnil /\ Len(v.entries) > 1) =>
        out \in {ObjectText(shape, s, DefaultConfig) :
                    s \in AscendingOrders(shape, v.entries)}

---------------------------------------------------------------------------
(* Marshal calls running side by side on one encoder.  A call is a stack   *)
(* of frames, one per Marshal in progress; a step is taken by one call and *)
(* is one instruction of a StructEncoder or one move of a map instruction  *)
(* that uses an iterator, a mapSlice or a pool, together with what the     *)
(* call does on its own Buffer up to its next such move.                   *)

\* the shapes compiled for the calls: the four map instructions, a map
\* nested in a map, a map as a struct field
ConcShapes ==
    {MapOf(Kind("String"), Kind("String")), MapOf(Kind("Int"), Kind("Int")),
     MapOf(Kind("String"), MapOf(Kind("String"), Kind("String"))),
     MapOf(Kind("String"), MapOf(Kind("Int"), Kind("Int"))),
     StructOf(<<Field("M", <<109>>, MapOf(Kind("String"), Kind("String")))>>)}

RECURSIVE Full(_, _)
\* the map x, or the maps in x, are nil or hold as many entries as their
\* depth allows, with elements that are full in turn
Full(t, x) ==
    CASE t.kind = "Map" ->
            \/ x.isnil
            \/ /\ Len(x.entries) = NestedEntries(t.elem, 1)
               /\ \A i \in 1..Len(x.entries) : Full(t.elem, x.entries[i].e)
      [] t.kind = "Struct" ->
            \A i \in 1..Len(t.fields) : Full(t.fields[i].Type, x[i])
      [] OTHER -> TRUE

\* the maps of two maps of two entries each, all met in descending order of
\* key text
Descending(t) ==
    IF t.kind = "Map" /\ t.elem.kind = "Map" /\ t.elem.key.kind = "Int"
    THEN {x \in ValuesOf(t, 0) :
            /\ ~x.isnil /\ Len(x.entries) = 2
            /\ x.entries[1].k = <<98>>
            /\ \A i \in 1..2 : /\ ~x.entries[i].e.isnil
                                /\ Len(x.entries[i].e.entries) = 2
                                /\ x.entries[i].e.entries[1].k = 0}
    ELSE {}

\* the values the calls marshal
ConcValues(t) == {x \in ValuesOf(t, 1) : Full(t, x)} \cup Descending(t)

\* the encoder the calls share has been compiled; nothing is pooled
InitConc ==
    /\ pc = "compiled"
    /\ withConfig = TRUE
    /\ shape \in ConcShapes
    /\ cfg \in Configs
    /\ which = (IF shape.kind = "Map" THEN "map" ELSE "struct")
    /\ enc = (IF shape.kind = "Map"
              THEN NewMapEncoderWithConfig(shape, cfg)
              ELSE NewStructEncoderWithConfig(shape, cfg))
    /\ w = NewBuffer(<<>>)
    /\ pre = <<>>
    /\ v = NoValue
    /\ calls = [c \in Calls |-> Idle]
    /\ hiterPool = {}
    /\ mapSlicePool = {}
    /\ heap = <<>>
    /\ encAddr = NewObject({})
    /\ second = NoSecond
    /\ NoBuffers

\* the frame of StructEncoder.Marshal of e on the struct x, at instruction i
structFrame(e, x) == [kind |-> "struct", e |-> e, x |-> x, i |-> 1]

\* the frame of the map instruction ins on the map m: its position ph, its
\* iterator it and mapSlice (0: none), its loop counter i
mapFrame(ins, m) ==
    [kind |-> "map", ins |-> ins, m |-> m, ph |-> "newhiter", it |-> 0,
     mapSlice |-> 0, i |-> 0, bufStart |-> 0, bufEnd |-> 0]

\* the instruction sorts: sortStrStrInstr, sortInstr
Sorts(ins) == ins.op \in {"sortStrStrInstr", "sortInstr"}

\* the instruction is one of the two for map[string]string
StrStr(ins) == ins.op \in {"strStrInstr", "sortStrStrInstr"}

\* the frame on top of the stack of call c
Top(c) == calls[c].stack[Len(calls[c].stack)]

\* call c is inside a map instruction at position ph
At(c, ph) ==
    /\ calls[c].st = "running"
    /\ Top(c).kind = "map"
    /\ Top(c).ph = ph

RECURSIVE Settle(_)
\* the stack after every Marshal that has nothing left to do has returned:
\* a map instruction past its last write, a StructEncoder past its last
\* instruction
Settle(stack) ==
    IF Len(stack) = 0 THEN stack
    ELSE LET f == stack[Len(stack)]
             over == \/ f.kind = "map" /\ f.ph = "ret"
                     \/ f.kind = "struct" /\ f.i > Len(f.e.instructions)
         IN  IF over THEN Settle(SubSeq(stack, 1, Len(stack) - 1)) ELSE stack

\* the call with the given stack and Buffer: it is done when the Marshal the
\* goroutine called has returned
Resume(call, stack, b) ==
    LET st == Settle(stack)
    IN  [call EXCEPT !.b = Tracked(call.b, b), !.stack = st,
                     !.st = IF Len(st) = 0 THEN "done" ELSE "running"]

\* the map instruction ins called on the map m, up to its call of newhiter:
\* null for a nil map, {} for one of no entries, or else a frame
Enter(stack, b, ins, m) ==
    IF m.isnil THEN [stack |-> stack, b |-> Write(b, null)]
    ELSE IF Len(m.entries) = 0 THEN [stack |-> stack, b |-> Write(b, emptyObj)]
    ELSE IF Sorts(ins)
    THEN [stack |-> Append(stack, [mapFrame(ins, m) EXCEPT
                                        !.bufStart = Len(b.Bytes)]),
          b |-> b]
    ELSE [stack |-> Append(stack, mapFrame(ins, m)),
          b |-> Write(b, <<123, 34>>)]

\* the stack of call c with its top frame replaced by f
Replaced(c, f) == [calls[c].stack EXCEPT ![Len(calls[c].stack)] = f]

\* calls after call c replaced its top frame by f and left its Buffer as b
WithTop(c, f, b) ==
    [calls EXCEPT ![c] = Resume(calls[c], Replaced(c, f), b)]

\* calls after call c replaced its top frame by f and called the map
\* instruction ins on the map m
Push(c, f, b, ins, m) ==
    LET r == Enter(Replaced(c, f), b, ins, m)
    IN  [calls EXCEPT ![c] = Resume(calls[c], r.stack, r.b)]

\* sync.Pool.Get leaving the object it hands out in the pool
PoolGetKeep(pool, h) ==
    IF pool = {} THEN {[id |-> Len(h) + 1, pool |-> pool]}
    ELSE {[id |-> o, pool |-> pool] : o \in pool}

\* sync.Pool.Get allocating a new object on every call
PoolGetNew(pool, h) == {[id |-> Len(h) + 1, pool |-> pool]}

\* sync.Pool.Get: some object of the pool, taken out of it, or for an empty
\* pool a new object (nil from hiterPool, New() from mapSlicePool), at the
\* next address of the heap h
PoolGet(pool, h) ==
    IF pool = {} THEN {[id |-> Len(h) + 1, pool |-> pool]}
    ELSE {[id |-> o, pool |-> pool \ {o}] : o \in pool}

\* the heap h with obj stored at address id
Store(h, id, obj) ==
    IF id > Len(h) THEN Append(h, obj) ELSE [h EXCEPT ![id] = obj]

\* a goroutine calls Marshal with a value and a Buffer of its own
Begin(c) ==
    /\ calls[c].st = "idle"
    /\ \E x \in ConcValues(shape) :
        LET call == [st |-> "running", x |-> x, b |-> TrackedBuffer(<<>>),
                     stack |-> <<>>]
            r == IF which = "map"
                 THEN Enter(<<>>, call.b, enc.instruction, x)
                 ELSE [stack |-> <<structFrame(enc, x)>>, b |-> call.b]
        IN  calls' = [calls EXCEPT ![c] = Resume(call, r.stack, r.b)]
    /\ UNCHANGED <<pc, which, shape, cfg, withConfig, enc, w, pre, v, twice,
                   aside,
                   hiterPool, mapSlicePool, heap>>

\* e.instructions[i](p, w) in the loop of StructEncoder.Marshal
StructInstruction(c) ==
    /\ calls[c].st = "running"
    /\ Top(c).kind = "struct"
    /\ Top(c).i <= Len(Top(c).e.instructions)
    /\ LET f == Top(c)
           ins == f.e.instructions[f.i]
           f1 == [f EXCEPT !.i = @ + 1]
       IN  calls' = IF ins.op = "map"
                    THEN Push(c, f1, calls[c].b, ins.enc.instruction,
                              f.x[ins.off])
                    ELSE WithTop(c, f1, structStep(ins, f.x, calls[c].b))
    /\ UNCHANGED <<pc, which, shape, cfg, withConfig, enc, w, pre, v, twice,
                   aside,
                   hiterPool, mapSlicePool, heap>>

\* it := newhiter(e.typ, m): an iterator from hiterPool or a new one, set to
\* the first entry of m
NewHiter(c) ==
    /\ At(c, "newhiter")
    /\ \E got \in PoolGet(hiterPool, heap) :
        /\ hiterPool' = got.pool
        /\ heap' = Store(heap, got.id, [entries |-> Top(c).m.entries, i |-> 0])
        /\ calls' = WithTop(c, [Top(c) EXCEPT
                                  !.it = got.id,
                                  !.ph = IF Sorts(Top(c).ins)
                                         THEN "newmapslice" ELSE "iter"],
                            calls[c].b)
    /\ UNCHANGED <<pc, which, shape, cfg, withConfig, enc, w, pre, v, twice,
                   aside,
                   mapSlicePool>>

\* mapSlice := newMapSliceFromPool(): Get and Reset
NewMapSlice(c) ==
    /\ At(c, "newmapslice")
    /\ \E got \in PoolGet(mapSlicePool, heap) :
        /\ mapSlicePool' = got.pool
        /\ heap' = Store(heap, got.id, [kvs |-> <<>>])
        /\ calls' = WithTop(c, [Top(c) EXCEPT !.mapSlice = got.id,
                                              !.ph = "iter"],
                            calls[c].b)
    /\ UNCHANGED <<pc, which, shape, cfg, withConfig, enc, w, pre, v, twice,
                   aside,
                   hiterPool>>

\* mapiternext(it)
Advance(h, it) == [h EXCEPT ![it].i = @ + 1]

\* one pass of the loop over the iterator while it.key != nil: the entry is
\* written (strStrInstr, instr) or recorded in the mapSlice (sortStrStrInstr,
\* sortInstr), then mapiternext(it); an element that is a map has its Marshal
\* called first
Iterate(c) ==
    /\ At(c, "iter")
    /\ heap[Top(c).it].i < Len(heap[Top(c).it].entries)
    /\ LET f == Top(c)
           ins == f.ins
           b == calls[c].b
           en == heap[f.it].entries[heap[f.it].i + 1]
           f1 == [f EXCEPT !.i = @ + 1]
           record(kv) ==
               [Advance(heap, f.it) EXCEPT ![f.mapSlice].kvs = Append(@, kv)]
       IN  CASE ins.op = "strStrInstr" ->
                  LET b1 == IF f.i # 0 THEN Write(b, <<34, 44, 34>>) ELSE b
                      b2 == Write(ptrStringToBuf(en.k, b1), <<34, 58, 34>>)
                  IN  /\ calls' = WithTop(c, f1, ptrStringToBuf(en.e, b2))
                      /\ heap' = Advance(heap, f.it)
             [] ins.op = "instr" ->
                  LET b1 == IF f.i # 0 THEN Write(b, <<44, 34>>) ELSE b
                      b2 == Write(ApplyConv(ins.kconv, en.k, b1), <<34, 58>>)
                  IN  IF ins.econv.fn = "mapMarshal"
                      THEN /\ calls' = Push(c, [f1 EXCEPT !.ph = "next"], b2,
                                            ins.econv.enc.instruction, en.e)
                           /\ heap' = heap
                      ELSE /\ calls' = WithTop(c, f1,
                                               ApplyConv(ins.econv, en.e, b2))
                           /\ heap' = Advance(heap, f.it)
             [] ins.op = "sortStrStrInstr" ->
                  /\ calls' = calls
                  /\ heap' = record([k |-> en.k, e |-> en.e])
             [] ins.op = "sortInstr" ->
                  LET start == Len(b.Bytes)
                      b1 == Tracked(b, ApplyConv(ins.kconv, en.k, b))
                      klen == Len(b1.Bytes) - start
                  IN  /\ calls' = WithTop(c, f1, b1)
                      /\ heap' = record(keyHeader(b, b1, start, klen, en.e))
    /\ UNCHANGED <<pc, which, shape, cfg, withConfig, enc, w, pre, v, twice,
                   aside,
                   hiterPool, mapSlicePool>>

\* mapiternext(it) after the Marshal of an element that is a map returned
MapIterNext(c) ==
    /\ At(c, "next")
    /\ heap' = Advance(heap, Top(c).it)
    /\ calls' = WithTop(c, [Top(c) EXCEPT !.ph = "iter"], calls[c].b)
    /\ UNCHANGED <<pc, which, shape, cfg, withConfig, enc, w, pre, v, twice,
                   aside,
                   hiterPool, mapSlicePool>>

\* it.key == nil ends the loop: hiterPool.Put(it); strStrInstr and instr
\* close the object, the other two sort the mapSlice and open the object
PutHiter(c) ==
    /\ At(c, "iter")
    /\ heap[Top(c).it].i >= Len(heap[Top(c).it].entries)
    /\ hiterPool' = hiterPool \cup {Top(c).it}
    /\ LET f == [Top(c) EXCEPT !.it = 0]
           b == calls[c].b
       IN  CASE f.ins.op = "strStrInstr" ->
                  /\ calls' = WithTop(c, [f EXCEPT !.ph = "ret"],
                                      Write(b, <<34, 125>>))
                  /\ heap' = heap
             [] f.ins.op = "instr" ->
                  /\ calls' = WithTop(c, [f EXCEPT !.ph = "ret"],
                                      WriteByte(b, RBRACE))
                  /\ heap' = heap
             [] Sorts(f.ins) ->
                  /\ calls' = WithTop(c, [f EXCEPT !.ph = "emit", !.i = 0,
                                                   !.bufEnd = Len(b.Bytes)],
                                      Write(b, <<123, 34>>))
                  /\ heap' = [heap EXCEPT
                                ![f.mapSlice].kvs = Sort(@, Memory(b))]
    /\ UNCHANGED <<pc, which, shape, cfg, withConfig, enc, w, pre, v, twice,
                   aside,
                   mapSlicePool>>

\* one pass of the second loop of sortStrStrInstr and sortInstr, over the
\* records of the mapSlice
Emit(c) ==
    /\ At(c, "emit")
    /\ Top(c).i < Len(Top(c).m.entries)
    /\ LET f == Top(c)
           ins == f.ins
           b == calls[c].b
           kv == heap[f.mapSlice].kvs[f.i + 1]
           f1 == [f EXCEPT !.i = @ + 1]
       IN  IF StrStr(ins)
           THEN LET b1 == IF f.i # 0 THEN Write(b, <<34, 44, 34>>) ELSE b
                    b2 == Write(ptrStringToBuf(kv.k, b1), <<34, 58, 34>>)
                IN  calls' = WithTop(c, f1, ptrStringToBuf(kv.e, b2))
           ELSE LET b1 == IF f.i # 0 THEN Write(b, <<44, 34>>) ELSE b
                    b2 == Write(Write(b1, keyText(kv, Memory(b1))),
                                <<34, 58>>)
                IN  calls' =
                      IF ins.econv.fn = "mapMarshal"
                      THEN Push(c, f1, b2, ins.econv.enc.instruction, kv.e)
                      ELSE WithTop(c, f1, ApplyConv(ins.econv, kv.e, b2))
    /\ UNCHANGED <<pc, which, shape, cfg, withConfig, enc, w, pre, v, twice,
                   aside,
                   hiterPool, mapSlicePool, heap>>

\* the end of sortStrStrInstr and sortInstr: mapSlice.ReturnToPool(), then
\* the closing of the object (sortInstr cuts the rendered keys out first)
ReturnToPool(c) ==
    /\ At(c, "emit")
    /\ Top(c).i >= Len(Top(c).m.entries)
    /\ mapSlicePool' = mapSlicePool \cup {Top(c).mapSlice}
    /\ LET f == [Top(c) EXCEPT !.mapSlice = 0, !.ph = "ret"]
           b == calls[c].b
       IN  calls' = WithTop(c, f,
                            IF StrStr(f.ins) THEN Write(b, <<34, 125>>)
                            ELSE WriteByte(splice(b, f.bufStart, f.bufEnd),
                                           RBRACE))
    /\ UNCHANGED <<pc, which, shape, cfg, withConfig, enc, w, pre, v, twice,
                   aside,
                   hiterPool, heap>>

NextConc ==
    \E c \in Calls :
        \/ Begin(c)
        \/ StructInstruction(c)
        \/ NewHiter(c)
        \/ NewMapSlice(c)
        \/ Iterate(c)
        \/ MapIterNext(c)
        \/ PutHiter(c)
        \/ Emit(c)
        \/ ReturnToPool(c)

SpecConc == InitConc /\ [][NextConc]_vars

\* the iterators and mapSlices call c holds: taken from a pool or allocated
\* and not yet put back
Held(c) ==
    IF calls[c].st # "running" THEN {}
    ELSE UNION {{calls[c].stack[j].it, calls[c].stack[j].mapSlice} \ {0} :
                    j \in {k \in 1..Len(calls[c].stack) :
                                calls[c].stack[k].kind = "map"}}

\* what Marshal writes to an empty Buffer for the value x when it runs alone
Alone(x) ==
    IF which = "map" THEN MapMarshal(enc, x, EmptyBuffer)
    ELSE StructMarshal(enc, x, EmptyBuffer)

\* C20: Marshal calls on one encoder, each with a Buffer of its own, may
\* interleave in any way: a call that has returned has written what it writes
\* alone, no iterator or mapSlice is held by two calls or held while it is in
\* its pool, and no step of a call changes the encoder.
C20_ConcurrentMarshal ==
    /\ [](\A c \in Calls :
            calls[c].st = "done" =>
                Untracked(calls[c].b) = Alone(calls[c].x))
    /\ [](\A c, d \in Calls : c # d => Held(c) \cap Held(d) = {})
    /\ [](\A c \in Calls : Held(c) \cap (hiterPool \cup mapSlicePool) = {})
    /\ [][enc' = enc]_vars

\* while call 1 writes out its sorted records, call 2 iterates with the
\* iterator call 1 has put back and fills a mapSlice of its own
C20_Witness ==
    /\ At(1, "emit") /\ At(2, "iter")
    /\ Len(heap) = 3
    /\ Top(1).mapSlice = 2
    /\ Top(2).it = 1 /\ Top(2).mapSlice = 3
    /\ Len(heap[3].kvs) = 1

---------------------------------------------------------------------------
(* bufpool (buffer.go): Buffers taken from and returned to the pool *)

\* the Buffers allocated for bufpool
MaxBufs == 2

\* the largest capacity of a Buffer's backing array, and the largest size
\* asked of NewBufferFromPoolWithCap
MaxCap == 2

\* New: func() interface{} { return &Buffer{} }; cap is cap(b.Bytes)
ZeroBuffer == [Bytes |-> <<>>, panicked |-> FALSE, cap |-> 0]

\* the byte slices the callers write: "x", "xx", ...
Chunks == {[i \in 1..n |-> 120] : n \in 1..MaxCap}

\* append(b.Bytes, ...) to a length of n: the backing array is kept when it
\* is large enough, and replaced by a larger one of the runtime's choice
\* when it is not
AppendCaps(b, n) == IF n <= b.cap THEN {b.cap} ELSE n..MaxCap

\* bufpool.Get(): a Buffer that was Put, or a new one from New (the pool may
\* drop what was Put at any time)
bufpoolGet ==
    {[a |-> a, bufs |-> bufs, pool |-> bufpool \ {a}] : a \in bufpool} \cup
    IF Len(bufs) < MaxBufs
    THEN {[a |-> Len(bufs) + 1, bufs |-> Append(bufs, ZeroBuffer),
           pool |-> bufpool]}
    ELSE {}

\* b.Bytes = make([]byte, 0, size)
Make(b, size) == [b EXCEPT !.Bytes = <<>>, !.cap = size]

\* what a call that asked for size (-1: NewBufferFromPool) found in b and
\* returned as r; made tells whether it allocated a backing array
Taken(b, r, size, made) ==
    [len |-> Len(r.Bytes), cap |-> r.cap, size |-> size, made |-> made,
     lenBefore |-> Len(b.Bytes), capBefore |-> b.cap]

\* func (b *Buffer) Write(v []byte), on a Buffer of the pool
PooledWrite ==
    /\ \E a \in DOMAIN bufs, bs \in Chunks :
         /\ Len(bufs[a].Bytes) + Len(bs) <= MaxCap
         /\ \E c \in AppendCaps(bufs[a], Len(bufs[a].Bytes) + Len(bs)) :
              bufs' = [bufs EXCEPT
                         ![a] = [Write(@, bs) EXCEPT !.cap = c]]
    /\ UNCHANGED <<pc, which, shape, cfg, withConfig, enc, w, pre, v, conc,
                   twice, compiling, bufpool, taken>>

\* func (b *Buffer) WriteByte(v byte), on a Buffer of the pool
PooledWriteByte ==
    /\ \E a \in DOMAIN bufs :
         /\ Len(bufs[a].Bytes) + 1 <= MaxCap
         /\ \E c \in AppendCaps(bufs[a], Len(bufs[a].Bytes) + 1) :
              bufs' = [bufs EXCEPT
                         ![a] = [WriteByte(@, <<120>>) EXCEPT !.cap = c]]
    /\ UNCHANGED <<pc, which, shape, cfg, withConfig, enc, w, pre, v, conc,
                   twice, compiling, bufpool, taken>>

\* func (b *Buffer) Reset(), on a Buffer of the pool
PooledReset ==
    /\ \E a \in DOMAIN bufs : bufs' = [bufs EXCEPT ![a] = Reset(@)]
    /\ UNCHANGED <<pc, which, shape, cfg, withConfig, enc, w, pre, v, conc,
                   twice, compiling, bufpool, taken>>

\* func (b *Buffer) ReturnToPool()
BufferReturnToPool ==
    /\ \E a \in DOMAIN bufs : bufpool' = bufpool \cup {a}
    /\ UNCHANGED <<pc, which, shape, cfg, withConfig, enc, w, pre, v, conc,
                   twice, compiling, bufs, taken>>

\* func NewBufferFromPool() *Buffer
NewBufferFromPool ==
    /\ \E g \in bufpoolGet :
         LET b == g.bufs[g.a]
             r == Reset(b)
         IN  /\ bufs' = [g.bufs EXCEPT ![g.a] = r]
             /\ bufpool' = g.pool
             /\ taken' = Taken(b, r, -1, FALSE)
    /\ UNCHANGED <<pc, which, shape, cfg, withConfig, enc, w, pre, v, conc,
                   twice, compiling>>

\* func NewBufferFromPoolWithCap(size int) *Buffer
NewBufferFromPoolWithCap ==
    /\ \E g \in bufpoolGet, size \in 0..MaxCap :
         LET b == g.bufs[g.a]
             r == IF b.cap < size THEN Make(b, size)
                  ELSE IF b.cap > 0 THEN Reset(b)
                  ELSE b
         IN  /\ bufs' = [g.bufs EXCEPT ![g.a] = r]
             /\ bufpool' = g.pool
             /\ taken' = Taken(b, r, size, b.cap < size)
    /\ UNCHANGED <<pc, which, shape, cfg, withConfig, enc, w, pre, v, conc,
                   twice, compiling>>

NextPool ==
    \/ PooledWrite
    \/ PooledWriteByte
    \/ PooledReset
    \/ BufferReturnToPool
    \/ NewBufferFromPool
    \/ NewBufferFromPoolWithCap

SpecPool == Init /\ [][NextPool]_vars

\* C22: every Buffer that NewBufferFromPool or NewBufferFromPoolWithCap(n)
\* returns has length 0, whatever was written, reset and returned before;
\* ReturnToPool leaves every Buffer as it is; the Buffer WithCap(n) returns
\* has capacity n or more, and that call allocates a backing array only when
\* the Buffer it got from the pool had a capacity below n.
C22_PooledBufferEmpty ==
    /\ [](("len" \in DOMAIN taken) =>
            /\ taken.len = 0
            /\ taken.cap >= taken.size
            /\ taken.made => taken.capBefore < taken.size)
    /\ [][bufpool' # bufpool /\ bufpool \subseteq bufpool' => bufs' = bufs]_vars

\* NewBufferFromPoolWithCap(2) got a Buffer that held two bytes in a backing
\* array of two, and returned it empty without allocating
C22_Witness ==
    /\ "len" \in DOMAIN taken
    /\ taken.size = 2 /\ taken.lenBefore = 2 /\ taken.capBefore = 2
    /\ ~taken.made /\ taken.len = 0 /\ taken.cap = 2

\* the text of the map m of shape t with its entries in ascending order of
\* key text (the order is one when no two key texts are equal)
AscendingText(t, m, c) ==
    IF m.isnil THEN null
    ELSE ObjectText(t, CHOOSE s \in AscendingOrders(t, m.entries) : TRUE, c)

\* the shapes in which a map[string]int is the field of a struct, the element
\* of a slice and the element of a map
mapStringInt == MapOf(Kind("String"), Kind("Int"))

\* C23: Marshal only appends: what the Buffer held before the call is a
\* prefix of what it holds after, and what follows is the text the encoder
\* writes for the value into an empty Buffer. With SortMapKeys on, the key
\* text of the first pass is gone on return: the text of a map starts right
\* after the earlier contents and is the object of its entries in ascending
\* order, also when the map is the field of a struct or the element of a
\* slice or of another map.
C23_AppendOnly ==
    /\ pc \in {"marshalled", "marshal_panic"} =>
            /\ Len(w.Bytes) >= Len(pre)
            /\ SubSeq(w.Bytes, 1, Len(pre)) = pre
    /\ pc = "marshalled" =>
            out = MarshalOf(which, enc, v, EmptyBuffer).Bytes
    /\ (Done("map") /\ SortMapKeys(cfg) /\ ~v.isnil) =>
            out \in {ObjectText(shape, s, cfg) :
                        s \in AscendingOrders(shape, v.entries)}
    /\ (Done("struct") /\ SortMapKeys(cfg) /\ shape = oneField(mapStringInt)) =>
            out = LBRACE \o KeyP \o AscendingText(mapStringInt, v[1], cfg)
                    \o RBRACE
    /\ (Done("slice") /\ SortMapKeys(cfg) /\ shape = SliceOf(mapStringInt)) =>
            out = LBRACK \o
                  Join([i \in 1..Len(v.elems) |->
                          AscendingText(mapStringInt, v.elems[i], cfg)],
                       COMMA) \o
                  RBRACK

\* with SortMapKeys on, a map of two maps whose keys were met in descending
\* order has been appended to a Buffer that held "x"
C23_Witness ==
    /\ Done("map") /\ SortMapKeys(cfg)
    /\ shape = MapOf(Kind("String"), MapOf(Kind("Int"), Kind("Int")))
    /\ pre = <<120>>
    /\ ~v.isnil /\ Len(v.entries) = 2
    /\ TextBefore(v.entries[2].k, v.entries[1].k)
    /\ ~v.entries[1].e.isnil /\ Len(v.entries[1].e.entries) = 2
    /\ TextBefore(AppendInt(v.entries[1].e.entries[2].k),
                  AppendInt(v.entries[1].e.entries[1].k))
    /\ w.Bytes[2] = 123

\* the calls of Marshal that are running
Running == {c \in Calls : calls[c].st = "running"}

\* one call is running, on a value that a call that has returned was given
SteadyState ==
    /\ Cardinality(Running) = 1
    /\ \E c \in Running, d \in Calls :
            calls[d].st = "done" /\ calls[d].x = calls[c].x

RECURSIVE StaticText(_, _)
StaticText(e, i) ==
    IF i > Len(e.instructions) THEN <<>>
    ELSE (IF e.instructions[i].op = "static" THEN e.instructions[i].bs
          ELSE <<>>) \o StaticText(e, i + 1)

\* the plan of the StructEncoder e is flushed as flunk flushes it
Flushed(e) ==
    /\ \A i \in 1..(Len(e.instructions) - 1) :
            ~(e.instructions[i].op = "static"
              /\ e.instructions[i + 1].op = "static")
    /\ \A i \in 1..Len(e.instructions) :
            e.instructions[i].op = "static" => Len(e.instructions[i].bs) > 0
    /\ StaticText(e, 1) = e.cb
    /\ e.cpos = Len(e.cb)

\* the StructEncoders compiled for the struct and pointer-to-struct fields
\* of the struct that e encodes
ChildStructEncoders(e) ==
    {e.instructions[i].enc :
        i \in {j \in 1..Len(e.instructions) :
                e.instructions[j].op \in {"struct", "ptrstruct"}}}

\* C25: in the instructions NewStructEncoder compiles (and in those of the
\* encoders it compiles for struct fields) no two neighbours are both static,
\* no static instruction is empty, the static instructions hold the bytes
\* chunked to cb once each and in order, and cpos is len(cb); flunk called
\* on the compiled encoder, where nothing is pending, adds no instruction.
C25_FlushedPlan ==
    (which = "struct" /\ pc \in {"compiled", "marshalled", "marshal_panic"}) =>
        /\ Flushed(enc)
        /\ \A child \in ChildStructEncoders(enc) : Flushed(child)
        /\ flunk(enc) = enc

\* a struct of three tagged fields has compiled to four static instructions
\* around and between three value instructions
C25_Witness ==
    /\ which = "struct" /\ pc = "compiled"
    /\ shape = taggedStruct({1, 2, 3})
    /\ Len(enc.instructions) = 7
    /\ \A i \in {1, 3, 5, 7} : enc.instructions[i].op = "static"
    /\ \A i \in {2, 4, 6} : enc.instructions[i].op = "val"
    /\ enc.instructions[7].bs = <<125>>

RECURSIVE quotedLoop(_, _, _)
\* the loop of the earlier stringInstr, which quotes each element:
\* w.Write(comma) between elements, w.Write(quote) before and after each
quotedLoop(elems, b, i) ==
    IF i >= Len(elems) THEN b
    ELSE LET b1 == IF i > 0 THEN Write(b, COMMA) ELSE b
             b2 == ptrStringToBuf(elems[i + 1], Write(b1, QUOTE))
         IN  quotedLoop(elems, Write(b2, QUOTE), i + 1)

\* the earlier stringInstr run on the slice x: w.Write(open), the loop,
\* w.Write(close)
quotedStringInstr(x, b) ==
    Write(quotedLoop(x.elems, Write(b, LBRACK), 0), RBRACK)

\* C26: for a slice of strings of any length, stringInstr (one quote before
\* the first element, "," between elements, one quote after the last)
\* writes what the earlier stringInstr wrote, which quotes each element and
\* joins them with commas: [] for no element, also when elements are empty.
C26_StringSliceQuoting ==
    (Done("slice") /\ shape = SliceOf(Kind("String"))) =>
        /\ w = quotedStringInstr(v, NewBuffer(pre))
        /\ out = LBRACK \o
                 Join([i \in 1..Len(v.elems) |->
                        QUOTE \o v.elems[i] \o QUOTE], COMMA) \o
                 RBRACK

\* the slice []string{"", "b"} has been written as ["","b"]
C26_Witness ==
    /\ Done("slice") /\ shape = SliceOf(Kind("String"))
    /\ ~v.isnil /\ v.elems = <<<<>>, <<98>>>>
    /\ out = <<91, 34, 34, 44, 34, 98, 34, 93>>

\* the slice []string{} has been written as []
C26_WitnessEmpty ==
    /\ Done("slice") /\ shape = SliceOf(Kind("String"))
    /\ ~v.isnil /\ v.elems = <<>>
    /\ out = <<91, 93>>

\* the instructions of e that read an element of an array field
ArraySteps(e) ==
    SelectSeq(e.instructions, LAMBDA ins : ins.op = "array")

\* the text of the array x of shape t, its elements in index order, text
\* elements quoted, with sep between neighbours
ArrayText(t, x, sep) ==
    LBRACK \o
    Join([i \in 1..t.len |-> ValueText(t.elem, x[i], DefaultConfig)], sep) \o
    RBRACK

\* C27: a field that is an array of N ints or strings compiles to N value
\* instructions, the i-th reading element i of the field, and renders as the
\* JSON array of the N elements in index order, strings in double quotes
\* (with or without a space after each comma), [] for N = 0.
C27_ArrayField ==
    (which = "struct" /\ pc \in {"compiled", "marshalled"}
     /\ shape \in {oneField(ArrayOf(n, Kind(k))) :
                    n \in {0, 2}, k \in {"Int", "String"}}) =>
        LET t == shape.fields[1].Type
        IN  /\ pc \in {"compiled", "marshalled"} =>
                /\ Len(ArraySteps(enc)) = t.len
                /\ \A i \in 1..t.len :
                        /\ ArraySteps(enc)[i].off = 1
                        /\ ArraySteps(enc)[i].idx = i - 1
            /\ pc = "marshalled" =>
                \E sep \in {<<44>>, <<44, 32>>} :
                    out = LBRACE \o KeyP \o ArrayText(t, v[1], sep) \o RBRACE

RECURSIVE MapEncoders(_, _)
\* the MapEncoders compiled at any depth for the encoder e that constructor
\* k returned: e itself when it is one, and those of the child encoders that
\* its instructions and converters call
MapEncoders(k, e) ==
    CASE k = "struct" ->
            UNION {LET ins == e.instructions[i]
                   IN  CASE ins.op \in {"struct", "ptrstruct"} ->
                                MapEncoders("struct", ins.enc)
                         [] ins.op = "slice" -> MapEncoders("slice", ins.enc)
                         [] ins.op \in {"map", "ptrmap"} ->
                                MapEncoders("map", ins.enc)
                         [] OTHER -> {} :
                   i \in 1..Len(e.instructions)}
      [] k = "slice" ->
            LET ins == e.instruction
            IN  CASE ins.op = "sliceInstr" -> MapEncoders("slice", ins.enc)
                  [] ins.op \in {"structInstr", "ptrStrctInstr"} ->
                        MapEncoders("struct", ins.enc)
                  [] ins.op \in {"mapInstr", "ptrMapInstr"} ->
                        MapEncoders("map", ins.enc)
                  [] OTHER -> {}
      [] k = "map" ->
            {e} \cup
            IF e.instruction.op \in {"instr", "sortInstr"}
            THEN LET ec == e.instruction.econv
                     c == IF ec.fn = "ptrElemInstr" THEN ec.conv ELSE ec
                 IN  CASE c.fn = "sliceMarshal" -> MapEncoders("slice", c.enc)
                       [] c.fn = "structMarshal" ->
                            MapEncoders("struct", c.enc)
                       [] c.fn = "mapMarshal" -> MapEncoders("map", c.enc)
                       [] OTHER -> {}
            ELSE {}

\* C28: every MapEncoder compiled below the encoder a constructor returned,
\* for a struct field, a slice element, a map element or a pointer to one of
\* them, holds the Config the constructor was given and has a sorting
\* instruction exactly when SortMapKeys is on in that Config.
C28_ConfigReachesNestedMaps ==
    pc \in {"compiled", "marshalled", "marshal_panic"} =>
        \A m \in MapEncoders(which, enc) :
            /\ m.cfg = cfg
            /\ Sorts(m.instruction) <=> SortMapKeys(cfg)

\* with SortMapKeys on, a map of slices of maps has compiled to two sorting
\* MapEncoders, the inner one below the slice
C28_Witness ==
    /\ pc = "compiled" /\ which = "map" /\ SortMapKeys(cfg)
    /\ shape = MapOf(Kind("String"),
                     SliceOf(MapOf(Kind("String"), Kind("String"))))
    /\ enc.instruction.op = "sortInstr"
    /\ enc.instruction.econv.enc.instruction.enc.instruction.op
            = "sortStrStrInstr"
    /\ Cardinality(MapEncoders(which, enc)) = 2

\* the frames of call c that hold a mapSlice
SortFrames(c) ==
    IF calls[c].st # "running" THEN {}
    ELSE {j \in 1..Len(calls[c].stack) :
            calls[c].stack[j].kind = "map" /\ calls[c].stack[j].mapSlice # 0}

\* what the first loop writes (sortInstr) or records (sortStrStrInstr) as
\* the text of the key k
RenderedKey(ins, k) ==
    IF StrStr(ins) THEN k ELSE ApplyConv(ins.kconv, k, EmptyBuffer).Bytes

\* the records of frame j of call c point to the key texts of the entries of
\* its map: in the first loop record i to that of the i-th entry met, after
\* the sort to those of the entries in some order
KeysIntact(c, j) ==
    LET f == calls[c].stack[j]
        kvs == heap[f.mapSlice].kvs
        mem == Memory(calls[c].b)
        of(i, n) ==
            /\ keyText(kvs[i], mem) = RenderedKey(f.ins, f.m.entries[n].k)
            /\ kvs[i].e = f.m.entries[n].e
    IN  IF f.ph = "emit"
        THEN /\ Len(kvs) = Len(f.m.entries)
             /\ \E p \in Permutations(1..Len(kvs)) :
                    \A i \in 1..Len(kvs) : of(i, p[i])
        ELSE \A i \in 1..Len(kvs) : of(i, i)

\* C29: with SortMapKeys on, the key text a record points to is the text
\* rendered for its entry, from the first loop to the end of the second,
\* whatever array the Buffer has moved to since and whatever the Marshal of
\* an element that is a map has spliced; no two frames of a call hold the
\* same mapSlice, no step changes the records of a frame below the top one,
\* and a mapSlice just taken from the pool has no records.
C29_KeyTextKept ==
    /\ [](\A c \in Calls : \A j \in SortFrames(c) : KeysIntact(c, j))
    /\ [](\A c \in Calls : \A j, k \in SortFrames(c) :
            j # k => calls[c].stack[j].mapSlice # calls[c].stack[k].mapSlice)
    /\ [][\A c \in Calls : \A j \in SortFrames(c) :
            j < Len(calls[c].stack) =>
                heap'[calls[c].stack[j].mapSlice]
                    = heap[calls[c].stack[j].mapSlice]]_vars
    /\ [][\A c \in Calls :
            (At(c, "newmapslice") /\ calls'[c] # calls[c]) =>
                heap'[calls'[c].stack[Len(calls[c].stack)].mapSlice].kvs
                    = <<>>]_vars

\* a call is in the second loop of sortInstr for an element that is a map
\* of two entries; the second record of the outer map, not yet written out,
\* points into an array the Buffer has left behind
C29_Witness ==
    /\ calls[1].st = "running" /\ Len(calls[1].stack) = 2
    /\ \A j \in 1..2 : /\ calls[1].stack[j].kind = "map"
                        /\ calls[1].stack[j].ins.op = "sortInstr"
                        /\ calls[1].stack[j].ph = "emit"
                        /\ Len(calls[1].stack[j].m.entries) = 2
    /\ calls[1].stack[1].i = 1
    /\ heap[calls[1].stack[1].mapSlice].kvs[2].gen < Gen(calls[1].b)
    /\ calls[1].stack[1].mapSlice # calls[1].stack[2].mapSlice

---------------------------------------------------------------------------
(* The constructors step by step: the calls they make to one another *)

\* the frames of constructor calls the stack of a goroutine has room for
MaxStack == 4

\* a reference to a declared type by its name
Named(n) == [kind |-> "Named", name |-> n]

\* the declared types that refer to themselves:
\*   type node struct { Next *node `json:"n"` }
\*   type tree struct { Kids []tree `json:"k"` }
\*   type graph struct { Adj map[string]graph `json:"a"` }
TypeOf(n) ==
    CASE n = "node" ->
            StructOf(<<Field("Next", <<110>>, PtrTo(Named("node")))>>)
      [] n = "tree" ->
            StructOf(<<Field("Kids", <<107>>, SliceOf(Named("tree")))>>)
      [] n = "graph" ->
            StructOf(<<Field("Adj", <<97>>,
                             MapOf(Kind("String"), Named("graph")))>>)

\* the reflect.Type a type expression denotes
typ(t) == IF t.kind = "Named" THEN TypeOf(t.name) ELSE t

\* a call of the constructor ctor for type t
Call(ctor, t) == [ctor |-> ctor, t |-> t]

\* the constructor calls a constructor makes, in order, and whether it
\* panics itself after the last of them has returned
NoCalls == [calls |-> <<>>, panics |-> FALSE]

OnePanic == [calls |-> <<>>, panics |-> TRUE]

OneCall(ctor, t) == [calls |-> <<Call(ctor, t)>>, panics |-> FALSE]

RECURSIVE fieldCalls(_, _)
\* the calls of the field loop of NewStructEncoderWithConfig from field i:
\* valueInst calls a constructor for a struct, slice or map field, or for
\* the pointee of a pointer field
fieldCalls(t, i) ==
    IF i > Len(t.fields) THEN NoCalls
    ELSE LET f == t.fields[i]
             pt == parseTag(f.Tag)
             ft == typ(f.Type)
             bt == IF ft.kind = "Ptr" THEN typ(ft.elem) ELSE ft
             rest == fieldCalls(t, i + 1)
             then(ctor, ct) ==
                [rest EXCEPT !.calls = <<Call(ctor, ct)>> \o @]
         IN  CASE pt.tag = <<>> -> rest
               [] \/ Contains(pt.opts, OptStringer) /\ HasMethod(ft, "String")
                  \/ Contains(pt.opts, OptEncoder)
                  \/ Contains(pt.opts, OptRaw) -> rest
               [] bt.kind = "Slice" -> then("slice", ft)
               [] bt.kind = "Struct" -> then("struct", bt)
               [] bt.kind = "Map" -> then("map", bt)
               [] bt.kind \in UnsupportedKinds -> OnePanic
               [] OTHER -> rest

\* the call NewSliceEncoderWithConfig makes through the instruction it
\* picks for the element type
sliceCalls(t) ==
    LET et == typ(t.elem)
    IN  CASE et.kind \in {"Slice"} -> OneCall("slice", et)
          [] et.kind = "Struct" -> OneCall("struct", et)
          [] et.kind = "Map" -> OneCall("map", et)
          [] et.kind = "Ptr" ->
                LET pe == typ(et.elem)
                IN  CASE pe.kind = "Slice" -> OnePanic
                      [] pe.kind = "Struct" -> OneCall("struct", pe)
                      [] pe.kind = "Map" -> OneCall("map", pe)
                      [] OTHER -> NoCalls
          [] OTHER -> NoCalls

\* the call NewMapEncoderWithConfig makes for the element type, and the
\* panics for an element or a key type without a conversion
mapCalls(t) ==
    LET et == typ(t.elem)
        kt == typ(t.key)
        key == [NoCalls EXCEPT !.panics =
                    /\ kt.kind \notin PrimitiveKinds \cup {"String"}
                    /\ ~HasMethod(kt, "MarshalText")]
        then(ctor, ct) == [key EXCEPT !.calls = <<Call(ctor, ct)>>]
        child(ct) ==
            CASE ct.kind = "Slice" -> then("slice", ct)
              [] ct.kind = "Struct" -> then("struct", ct)
              [] ct.kind = "Map" -> then("map", ct)
    IN  CASE kt.kind = "String" /\ et.kind = "String" -> NoCalls
          [] HasMethod(et, "MarshalText") -> key
          [] et.kind \in {"Slice", "Struct", "Map"} -> child(et)
          [] et.kind = "Ptr" ->
                LET pe == typ(et.elem)
                IN  CASE pe.kind \in {"Slice", "Struct", "Map"} -> child(pe)
                      [] pe.kind \in PrimitiveKinds \cup {"String"} -> key
                      [] OTHER -> OnePanic
          [] et.kind \in PrimitiveKinds \cup {"String"} -> key
          [] OTHER -> OnePanic

\* the calls the constructor of frame f makes
CallsOf(f) ==
    CASE f.ctor = "struct" -> fieldCalls(f.t, 1)
      [] f.ctor = "slice" -> sliceCalls(f.t)
      [] f.ctor = "map" -> mapCalls(f.t)

\* the constructor calls made from outside: the shapes of the model and the
\* declared types, alone and as element of a slice or a map
CompileRoots ==
    {Call("struct", t) : t \in StructTypes} \cup
    {Call("slice", t) : t \in SliceTypes} \cup
    {Call("map", t) : t \in MapTypes} \cup
    {Call("struct", TypeOf(n)) : n \in {"node", "tree", "graph"}} \cup
    {Call("slice", SliceOf(Named("node"))),
     Call("map", MapOf(Kind("String"), PtrTo(Named("tree"))))}

\* the frame of a call that has made none of its calls yet
Frame(c) == [ctor |-> c.ctor, t |-> c.t, n |-> 0]

CompilingTop == compiling.stack[Len(compiling.stack)]

\* the rest of the program, which a compile leaves alone
NotCompile ==
    <<pc, which, shape, cfg, withConfig, enc, w, pre, v, conc, twice, pooled>>

\* a constructor is called from outside
CompileBegin ==
    /\ compiling.st = "idle"
    /\ \E c \in CompileRoots :
          compiling' = [st |-> "running", root |-> c, stack |-> <<Frame(c)>>]
    /\ UNCHANGED NotCompile

\* the constructor on top calls the next constructor
CompileCall ==
    /\ compiling.st = "running"
    /\ CompilingTop.n < Len(CallsOf(CompilingTop).calls)
    /\ Len(compiling.stack) < MaxStack
    /\ compiling' =
          [compiling EXCEPT !.stack =
              Append(@, Frame(CallsOf(CompilingTop).calls[CompilingTop.n + 1]))]
    /\ UNCHANGED NotCompile

\* the call does not fit the stack: the runtime ends the program with
\* "fatal error: stack overflow", which no recover stops
StackOverflow ==
    /\ compiling.st = "running"
    /\ CompilingTop.n < Len(CallsOf(CompilingTop).calls)
    /\ Len(compiling.stack) = MaxStack
    /\ compiling' = [compiling EXCEPT !.st = "overflow"]
    /\ UNCHANGED NotCompile

\* the constructor on top returns its encoder to its caller
CompileReturn ==
    /\ compiling.st = "running"
    /\ CompilingTop.n = Len(CallsOf(CompilingTop).calls)
    /\ ~CallsOf(CompilingTop).panics
    /\ LET d == Len(compiling.stack)
       IN  compiling' =
             IF d = 1
             THEN [compiling EXCEPT !.st = "returned", !.stack = <<>>]
             ELSE [compiling EXCEPT !.stack =
                     [SubSeq(@, 1, d - 1) EXCEPT ![d - 1].n = @ + 1]]
    /\ UNCHANGED NotCompile

\* the constructor on top panics; no constructor recovers, so the panic
\* reaches the caller
CompilePanic ==
    /\ compiling.st = "running"
    /\ CompilingTop.n = Len(CallsOf(CompilingTop).calls)
    /\ CallsOf(CompilingTop).panics
    /\ compiling' = [compiling EXCEPT !.st = "panicked", !.stack = <<>>]
    /\ UNCHANGED NotCompile

NextCompile ==
    \/ CompileBegin
    \/ CompileCall
    \/ StackOverflow
    \/ CompileReturn
    \/ CompilePanic

SpecCompile == Init /\ [][NextCompile]_vars

\* the constructor of the model, called on the root the steps began with
Whole(c) ==
    CASE c.ctor = "struct" -> NewStructEncoderWithConfig(c.t, DefaultConfig)
      [] c.ctor = "slice" -> NewSliceEncoderWithConfig(c.t, DefaultConfig)
      [] c.ctor = "map" -> NewMapEncoderWithConfig(c.t, DefaultConfig)

\* for the shapes without a reference to themselves the steps end as the
\* constructors of the model do: with an encoder, or with a panic
StepsAgree ==
    (/\ compiling.st # "idle"
     /\ compiling.root.t \in StructTypes \cup SliceTypes \cup MapTypes) =>
        /\ compiling.st # "overflow"
        /\ compiling.st = "returned" => ~Panicked(Whole(compiling.root))
        /\ compiling.st = "panicked" => Panicked(Whole(compiling.root))

\* C30: every compile ends with an encoder or with a compile panic, never
\* with the stack used up, and while a constructor is compiling a type no
\* constructor is called for that type again, also when the type refers to
\* itself through a pointer, a slice or a map field.
C30_CompileTerminates ==
    /\ compiling.st # "overflow"
    /\ (compiling.st = "running" =>
            \A i, j \in 1..Len(compiling.stack) :
                i # j => Call(compiling.stack[i].ctor, compiling.stack[i].t)
                         # Call(compiling.stack[j].ctor, compiling.stack[j].t))

====
